---- MODULE Spec2Model ----
(***************************************************************************)
(* Investo: the browser-resident ETF tracker.  This module models          *)
(*   - the price cache service (price-cache.service.ts) over localStorage  *)
(*     and the wall clock,                                                 *)
(*   - the portfolio service (portfolio.service.ts),                       *)
(*   - the usePrices hook (hooks/use-prices.ts),                           *)
(*   - the metrics engine (lib/calculations) and the annualized return of  *)
(*     the useMetrics hook (hooks/use-metrics.ts).                         *)
(* Time is counted in minutes of US Eastern civil time since Sunday 00:00; *)
(* the machine's own civil time is Eastern time plus tzOffset minutes.     *)
(***************************************************************************)
EXTENDS Integers, Naturals, Sequences, FiniteSets, TLC

(***************************************************************************)
(* TLC keeps the fields of a record in the order in which their names      *)
(* first occur in the module, and sorts a record that is written in        *)
(* another order in place, the first time the record is compared.  The     *)
(* values the quantifiers of a next-state relation range over are shared   *)
(* by TLC's workers, so a record among them must never need that sort.     *)
(* FieldOrder fixes the order: every record of this module is written      *)
(* with its fields in the order they have here.                            *)
(***************************************************************************)
FieldOrder ==
    [present |-> 1, doc |-> 2, start |-> 3, tz |-> 4, k |-> 5, num |-> 6, den |-> 7,
     has |-> 8, ok |-> 9, v |-> 10, op |-> 11, symbol |-> 12, currentPrice |-> 13,
     previousClose |-> 14, ytdChange |-> 15, lastUpdated |-> 16,
     ytdStartPrice |-> 17, data |-> 18, maxAge |-> 19, value |-> 20, found |-> 21,
     price |-> 22, stale |-> 23, threw |-> 24, newPrices |-> 25, failedCount |-> 26,
     item |-> 27, removedCount |-> 28, kind |-> 29, failed |-> 30, total |-> 31,
     parses |-> 32, id |-> 33, etfSymbol |-> 34, purchaseDate |-> 35, shares |-> 36,
     pricePerShare |-> 37, totalCost |-> 38, fees |-> 39, notes |-> 40, name |-> 41,
     purchasesIsArray |-> 42, purchases |-> 43, etfCache |-> 44, createdAt |-> 45,
     updatedAt |-> 46, version |-> 47, fetchId |-> 48, call |-> 49, key |-> 50,
     totalInvested |-> 51, currentValue |-> 52, totalGainLoss |-> 53,
     totalGainLossPercent |-> 54, ytdGainLoss |-> 55, ytdGainLossPercent |-> 56,
     holdings |-> 57, etfName |-> 58, totalShares |-> 59, averageCostPerShare |-> 60,
     totalCostBasis |-> 61, weightInPortfolio |-> 62, purchaseId |-> 63,
     costBasis |-> 64, gainLoss |-> 65, gainLossPercent |-> 66,
     holdingPeriodDays |-> 67, annualizedReturn |-> 68, startValue |-> 69,
     endValue |-> 70, days |-> 71, valueAtYearStart |-> 72,
     newInvestmentsThisYear |-> 73, bits |-> 74, exp |-> 75, more |-> 76,
     carry |-> 77]

VARIABLES
    \* ---- environment: localStorage and the clock
    storageAvailable,   \* isLocalStorageAvailable() answers true
    priceCacheItem,     \* localStorage["investo_price_cache"], parsed, or NoItem
    portfolioItem,      \* localStorage["investo_portfolio"], parsed, or NoItem
    startTime,          \* the instant the run starts at
    now,                \* Date.now()
    tzOffset,           \* machine civil time minus Eastern civil time
    \* ---- price cache service
    cacheRet,           \* the last price-cache call and what it returned
    \* ---- portfolio service
    portfolio,          \* the Portfolio value the caller holds
    nextId,             \* the number of ids generateId() has handed out
    svcRet,             \* the last portfolio-service call and how it ended
    \* ---- usePrices
    symbolsKey,         \* the symbols of the current render
    prevSymbolsKey,     \* prevSymbolsKeyRef.current
    hasFetched,         \* hasFetchedRef.current
    isMounted,          \* isMountedRef.current
    currentFetchId,     \* currentFetchIdRef.current
    prices,             \* useState prices
    isLoading,          \* useState isLoading
    error,              \* useState error
    loadedSymbolsKey,   \* useState loadedSymbolsKey
    rounds,             \* the fetchPrices calls suspended at their await
    callCount,          \* history: how many times fetchPrices was called
    pricesCall,         \* history: the call that last wrote prices
    \* ---- metrics engine
    priceMap,           \* the Map of quotes the metrics engine is called with
    metricsRet,         \* the last calculation of the metrics engine and its result
    \* ---- PortfolioProvider
    providerMounted,    \* the provider's mount effect has run
    providerPortfolio,  \* useState portfolio: the value last given to setPortfolio
    renderedPortfolio,  \* the portfolio of the last render, which the callbacks hold
    providerIsLoading,  \* useState isLoading
    providerError,      \* useState error
    addedIds            \* history: the ids of the purchases whose addPurchase call
                        \* through the provider reported no error

envVars == <<storageAvailable, priceCacheItem, portfolioItem, startTime, now, tzOffset>>
cacheVars == <<cacheRet>>
svcVars == <<portfolio, nextId, svcRet>>
hookVars == <<symbolsKey, prevSymbolsKey, hasFetched, isMounted, currentFetchId,
              prices, isLoading, error, loadedSymbolsKey, rounds, callCount, pricesCall>>
metricVars == <<priceMap, metricsRet>>
providerVars == <<providerMounted, providerPortfolio, renderedPortfolio,
                  providerIsLoading, providerError, addedIds>>
vars == <<envVars, cacheVars, svcVars, hookVars, metricVars, providerVars>>

(***************************************************************************)
(* Values                                                                  *)
(***************************************************************************)
EmptyMap == [x \in {} |-> 0]

\* localStorage.getItem answers null for a key that is not set
NoItem == [present |-> FALSE, doc |-> EmptyMap]

Item(doc) == [present |-> TRUE, doc |-> doc]

Put(m, k, v) == [x \in (DOMAIN m) \cup {k} |-> IF x = k THEN v ELSE m[x]]

Remove(m, k) == [x \in (DOMAIN m) \ {k} |-> m[x]]

(***************************************************************************)
(* Symbols are strings, here sequences of characters.                      *)
(***************************************************************************)
UpperChar(c) ==
    CASE c = "a" -> "A"
      [] c = "b" -> "B"
      [] OTHER -> c

toUpperCase(s) == [i \in 1..Len(s) |-> UpperChar(s[i])]

RECURSIVE trimStart(_)
trimStart(s) ==
    IF s # <<>> /\ Head(s) = " " THEN trimStart(Tail(s)) ELSE s

RECURSIVE trimEnd(_)
trimEnd(s) ==
    IF s # <<>> /\ s[Len(s)] = " " THEN trimEnd(SubSeq(s, 1, Len(s) - 1)) ELSE s

trim(s) == trimEnd(trimStart(s))

\* symbol.toUpperCase().trim()
Normalize(s) == trim(toUpperCase(s))

\* The spellings callers pass.
Spellings == { <<"A">>, <<"a", " ">>, <<" ", "b">> }

NormalizedSymbols == { Normalize(s) : s \in Spellings }

(***************************************************************************)
(* The clock and the market session                                        *)
(***************************************************************************)
MinutesPerDay == 24 * 60
MinutesPerWeek == 7 * MinutesPerDay

\* Where a run starts: Mon 09:26 and Fri 15:55 Eastern on a machine on Eastern
\* time; Fri 15:55 and Sun 20:00 Eastern on a machine on UTC+9 (Tokyo in winter,
\* 840 minutes ahead of UTC-5).
ClockSettings ==
    { [start |-> 2006, tz |-> 0], [start |-> 8155, tz |-> 0],
      [start |-> 8155, tz |-> 840], [start |-> 1200, tz |-> 840] }

\* The instants the clock is sampled at, as minutes after startTime.
SampleOffsets == { 0, 4, 6, 31, 61, 62 }

MaxElapsed == 61

\* Date#getDay() of a civil time: 0 is Sunday
DayOf(civil) == (civil % MinutesPerWeek) \div MinutesPerDay

\* getHours() * 60 + getMinutes()
MinuteOfDay(civil) == civil % MinutesPerDay

EasternCivil(t) == t

LocalCivil(t, tz) == t + tz

MARKET_OPEN == 570
MARKET_CLOSE == 960

isMarketOpen(t) ==
    LET eastern == EasternCivil(t)
        dayOfWeek == DayOf(eastern)
        currentTimeInMinutes == MinuteOfDay(eastern)
        isWeekday == dayOfWeek >= 1 /\ dayOfWeek <= 5
        isDuringMarketHours == currentTimeInMinutes >= MARKET_OPEN
                               /\ currentTimeInMinutes < MARKET_CLOSE
    IN  isWeekday /\ isDuringMarketHours

TTL_MARKET_HOURS == 5
TTL_AFTER_HOURS == 30
TTL_CLOSED == 60

\* getCurrentCacheTTL(): the weekend test reads the machine's own day
getCurrentCacheTTL(t, tz) ==
    IF isMarketOpen(t) THEN TTL_MARKET_HOURS
    ELSE LET day == DayOf(LocalCivil(t, tz))
         IN  IF day = 0 \/ day = 6 THEN TTL_CLOSED ELSE TTL_AFTER_HOURS

(***************************************************************************)
(* localStorage                                                            *)
(***************************************************************************)
isLocalStorageAvailable == storageAvailable

\* a read that would not test isLocalStorageAvailable() first
safeGetItemIgnoringAvailability(item) == item

\* safeGetItem(key): null when storage is unavailable or the key is not set
safeGetItem(item) == IF ~isLocalStorageAvailable THEN NoItem ELSE item

\* safeSetItem(key, value): the stored item afterwards
safeSetItem(item, value) == IF ~isLocalStorageAvailable THEN item ELSE value

\* safeRemoveItem(key): the stored item afterwards
safeRemoveItem(item) == IF ~isLocalStorageAvailable THEN item ELSE NoItem

(***************************************************************************)
(* Numbers.  A price of a quote is a finite number, here an integer.  A    *)
(* quotient is kept as an exact fraction; a number parsed from a form      *)
(* field may be NaN.  JSON.stringify writes NaN and the infinities as null.*)
(***************************************************************************)
Ratio(a, b) == [k |-> "ratio", num |-> a, den |-> b]

NonFiniteRatio == [k |-> "nonfinite", num |-> 0, den |-> 0]

NullRatio == [k |-> "null", num |-> 0, den |-> 0]

\* a / b; a division by zero yields Infinity, -Infinity or NaN
Divide(a, b) == IF b = 0 THEN NonFiniteRatio ELSE Ratio(a, b)

JsonRatio(x) == IF x.k = "nonfinite" THEN NullRatio ELSE x

(***************************************************************************)
(* Quotes (ETFPriceData) and cache entries (ETFCacheEntry)                 *)
(***************************************************************************)
QuoteValues ==
    { [currentPrice |-> 100, previousClose |-> 98, ytdChange |-> 0],
      [currentPrice |-> 105, previousClose |-> 100, ytdChange |-> 5] }

Quote(sym, v) ==
    [symbol |-> sym, currentPrice |-> v.currentPrice,
     previousClose |-> v.previousClose, ytdChange |-> v.ytdChange]

\* data.currentPrice / (1 + data.ytdChange / 100)
ytdStartPriceOf(data) == Divide(data.currentPrice * 100, 100 + data.ytdChange)

CacheEntry(normalizedSymbol, data, t) ==
    [symbol |-> normalizedSymbol,
     currentPrice |-> data.currentPrice,
     previousClose |-> data.previousClose,
     lastUpdated |-> t,
     ytdStartPrice |-> ytdStartPriceOf(data)]

JsonCacheEntry(e) == [e EXCEPT !.ytdStartPrice = JsonRatio(@)]

JsonCache(cache) == [k \in DOMAIN cache |-> JsonCacheEntry(cache[k])]

(***************************************************************************)
(* Price cache service                                                     *)
(***************************************************************************)
\* getPriceCache(): {} when nothing can be read
getPriceCache(item) ==
    LET json == safeGetItem(item)
    IN  IF ~json.present THEN EmptyMap ELSE json.doc

\* savePriceCache(cache): the stored item afterwards; a failed write is ignored
savePriceCache(item, cache) == safeSetItem(item, Item(JsonCache(cache)))

\* what the key would be without the normalization
CacheKeyAsGiven(symbol) == symbol

\* the key an entry is written under
CacheKey(symbol) == Normalize(symbol)

\* updatePriceCache(symbol, data): the stored item afterwards
updatePriceCache(item, symbol, data, t) ==
    LET normalizedSymbol == CacheKey(symbol)
        cache == getPriceCache(item)
    IN  savePriceCache(item, Put(cache, normalizedSymbol,
                                 CacheEntry(normalizedSymbol, data, t)))

NotCached == [found |-> FALSE, price |-> 0, stale |-> FALSE]

\* stale: age > ttl
IsStale(age, ttl) == age > ttl

\* getCachedPrice(symbol): { price, stale } or null
getCachedPrice(item, symbol, t, tz) ==
    LET normalizedSymbol == Normalize(symbol)
        cache == getPriceCache(item)
    IN  IF normalizedSymbol \notin DOMAIN cache THEN NotCached
        ELSE LET entry == cache[normalizedSymbol]
                 age == t - entry.lastUpdated
                 ttl == getCurrentCacheTTL(t, tz)
             IN  [found |-> TRUE, price |-> entry.currentPrice,
                  stale |-> IsStale(age, ttl)]

\* isCacheStale(symbol)
isCacheStale(item, symbol, t, tz) ==
    LET cached == getCachedPrice(item, symbol, t, tz)
    IN  ~cached.found \/ cached.stale

\* removeCacheEntry(symbol): the stored item afterwards
removeCacheEntry(item, symbol) ==
    LET normalizedSymbol == Normalize(symbol)
        cache == getPriceCache(item)
    IN  IF normalizedSymbol \in DOMAIN cache
        THEN savePriceCache(item, Remove(cache, normalizedSymbol))
        ELSE item

\* clearPriceCache(): the stored item afterwards
clearPriceCache(item) == safeRemoveItem(item)

\* bulkUpdatePriceCache(priceData): the stored item afterwards
RECURSIVE bulkPut(_, _, _)
bulkPut(cache, priceData, t) ==
    IF priceData = <<>> THEN cache
    ELSE LET data == Head(priceData)
             normalizedSymbol == CacheKey(data.symbol)
         IN  bulkPut(Put(cache, normalizedSymbol,
                         CacheEntry(normalizedSymbol, data, t)),
                     Tail(priceData), t)

bulkUpdatePriceCache(item, priceData, t) ==
    savePriceCache(item, bulkPut(getPriceCache(item), priceData, t))

\* a test that would also remove an entry whose age is exactly maxAge
PrunesInclusive(entry, maxAge, t) == t - entry.lastUpdated >= maxAge

\* the test of pruneStaleCache's loop: age > maxAge
Prunes(entry, maxAge, t) == t - entry.lastUpdated > maxAge

\* pruneStaleCache(maxAge): the stored item afterwards and the count returned
pruneStaleCache(item, maxAge, t) ==
    LET cache == getPriceCache(item)
        removed == { k \in DOMAIN cache : Prunes(cache[k], maxAge, t) }
        kept == [k \in (DOMAIN cache) \ removed |-> cache[k]]
        removedCount == Cardinality(removed)
    IN  [item |-> IF removedCount > 0 THEN savePriceCache(item, kept) ELSE item,
         removedCount |-> removedCount]

(***************************************************************************)
(* Environment steps                                                       *)
(***************************************************************************)
NoCall == [op |-> "none"]

\* The clock moves on to a later sampled instant.
Tick ==
    /\ \E o \in SampleOffsets :
          /\ o <= MaxElapsed
          /\ startTime + o > now
          /\ now' = startTime + o
    /\ cacheRet' = NoCall
    /\ svcRet' = NoCall
    /\ UNCHANGED <<storageAvailable, priceCacheItem, portfolioItem, startTime, tzOffset>>
    /\ UNCHANGED <<portfolio, nextId>>
    /\ UNCHANGED hookVars
    /\ UNCHANGED metricVars
    /\ UNCHANGED providerVars

\* The browser stops granting localStorage (the test write of
\* isLocalStorageAvailable throws), or grants it again.
StorageSwitches ==
    /\ storageAvailable' = ~storageAvailable
    /\ cacheRet' = NoCall
    /\ svcRet' = NoCall
    /\ UNCHANGED <<priceCacheItem, portfolioItem, startTime, now, tzOffset>>
    /\ UNCHANGED <<portfolio, nextId>>
    /\ UNCHANGED hookVars
    /\ UNCHANGED metricVars
    /\ UNCHANGED providerVars

(***************************************************************************)
(* The price cache service's operations as steps                           *)
(***************************************************************************)
MaxAges == { 0, 5, 30, 1440 }

MaxBulk == 2

Quotes == { Quote(sym, v) : sym \in Spellings, v \in QuoteValues }

\* the quotes of a bulk update: two spellings of one symbol among them
BulkQuotes ==
    { Quote(<<"a", " ">>, [currentPrice |-> 100, previousClose |-> 98, ytdChange |-> 0]),
      Quote(<<"A">>, [currentPrice |-> 105, previousClose |-> 100, ytdChange |-> 5]),
      Quote(<<" ", "b">>, [currentPrice |-> 100, previousClose |-> 98, ytdChange |-> 0]) }

BulkInputs == UNION { [1..n -> BulkQuotes] : n \in 0..MaxBulk }

CacheFrame ==
    /\ svcRet' = NoCall
    /\ UNCHANGED <<storageAvailable, portfolioItem, startTime, now, tzOffset>>
    /\ UNCHANGED <<portfolio, nextId>>
    /\ UNCHANGED hookVars
    /\ UNCHANGED metricVars
    /\ UNCHANGED providerVars

UpdatePriceCache(symbol, data) ==
    /\ priceCacheItem' = updatePriceCache(priceCacheItem, symbol, data, now)
    /\ cacheRet' = [op |-> "updatePriceCache", symbol |-> symbol, data |-> data]
    /\ CacheFrame

BulkUpdatePriceCache(priceData) ==
    /\ priceCacheItem' = bulkUpdatePriceCache(priceCacheItem, priceData, now)
    /\ cacheRet' = [op |-> "bulkUpdatePriceCache"]
    /\ CacheFrame

GetCachedPrice(symbol) ==
    /\ cacheRet' = [op |-> "getCachedPrice", symbol |-> symbol,
                    value |-> getCachedPrice(priceCacheItem, symbol, now, tzOffset)]
    /\ UNCHANGED priceCacheItem
    /\ CacheFrame

IsCacheStale(symbol) ==
    /\ cacheRet' = [op |-> "isCacheStale", symbol |-> symbol,
                    value |-> isCacheStale(priceCacheItem, symbol, now, tzOffset)]
    /\ UNCHANGED priceCacheItem
    /\ CacheFrame

RemoveCacheEntry(symbol) ==
    /\ priceCacheItem' = removeCacheEntry(priceCacheItem, symbol)
    /\ cacheRet' = [op |-> "removeCacheEntry"]
    /\ CacheFrame

ClearPriceCache ==
    /\ priceCacheItem' = clearPriceCache(priceCacheItem)
    /\ cacheRet' = [op |-> "clearPriceCache"]
    /\ CacheFrame

PruneStaleCache(maxAge) ==
    LET r == pruneStaleCache(priceCacheItem, maxAge, now)
    IN  /\ priceCacheItem' = r.item
        /\ cacheRet' = [op |-> "pruneStaleCache", maxAge |-> maxAge,
                        value |-> r.removedCount]
        /\ CacheFrame

(***************************************************************************)
(* Initial states                                                          *)
(***************************************************************************)
InitStorage ==
    /\ storageAvailable = TRUE
    /\ priceCacheItem = NoItem
    /\ portfolioItem = NoItem

\* setError(null)
NoError == [kind |-> "none", failed |-> 0, total |-> 0]

\* usePrices mounted with no symbols: the initial values of useState and useRef,
\* which the first run of the effect leaves as they are
InitHook ==
    /\ symbolsKey = {}
    /\ prevSymbolsKey = {}
    /\ hasFetched = FALSE
    /\ isMounted = TRUE
    /\ currentFetchId = 0
    /\ prices = EmptyMap
    /\ isLoading = FALSE
    /\ error = NoError
    /\ loadedSymbolsKey = {}
    /\ rounds = {}
    /\ callCount = 0
    /\ pricesCall = 0

NoPortfolio == [id |-> <<"missing", 0>>, name |-> "", purchases |-> <<>>,
                etfCache |-> EmptyMap, createdAt |-> 0, updatedAt |-> 0, version |-> 0]

InitSvcIdle ==
    /\ portfolio = NoPortfolio
    /\ nextId = 0
    /\ svcRet = NoCall

\* no calculation of the metrics engine has run
InitMetricsIdle ==
    /\ priceMap = EmptyMap
    /\ metricsRet = NoCall

\* the error state of the provider when no operation has failed
NoProviderError == "null"

\* PortfolioProvider as constructed: the initial values of its useState calls
InitProvider ==
    /\ providerMounted = FALSE
    /\ providerPortfolio = NoPortfolio
    /\ renderedPortfolio = NoPortfolio
    /\ providerIsLoading = TRUE
    /\ providerError = NoProviderError
    /\ addedIds = {}

(***************************************************************************)
(* The price cache service under the clock                                 *)
(***************************************************************************)
InitCache ==
    /\ InitStorage
    /\ \E c \in ClockSettings : startTime = c.start /\ tzOffset = c.tz
    /\ now = startTime
    /\ cacheRet = NoCall
    /\ InitSvcIdle
    /\ InitHook
    /\ InitMetricsIdle
    /\ InitProvider

NextCache ==
    \/ Tick
    \/ StorageSwitches
    \/ \E symbol \in Spellings, v \in QuoteValues : UpdatePriceCache(symbol, Quote(symbol, v))
    \/ \E priceData \in BulkInputs : BulkUpdatePriceCache(priceData)
    \/ \E symbol \in Spellings : GetCachedPrice(symbol)
    \/ \E symbol \in Spellings : IsCacheStale(symbol)
    \/ \E symbol \in Spellings : RemoveCacheEntry(symbol)
    \/ ClearPriceCache
    \/ \E maxAge \in MaxAges : PruneStaleCache(maxAge)

SpecCache == InitCache /\ [][NextCache]_vars

(***************************************************************************)
(* Claims about the price cache (checked under SpecCache)                  *)
(***************************************************************************)
\* The market session of an instant, from US Eastern civil time alone.
MarketSession(t) ==
    LET day == DayOf(EasternCivil(t))
        minute == MinuteOfDay(EasternCivil(t))
    IN  IF day = 0 \/ day = 6 THEN "CLOSED"
        ELSE IF minute >= 570 /\ minute < 960 THEN "MARKET_HOURS"
        ELSE "AFTER_HOURS"

SessionTTL(session) ==
    CASE session = "MARKET_HOURS" -> 5
      [] session = "AFTER_HOURS" -> 30
      [] session = "CLOSED" -> 60

\* what is stored under investo_price_cache
StoredCache == priceCacheItem.doc

\* C5: getCachedPrice(symbol) answers absent exactly when the cache holds no
\* entry for the normalized symbol, and otherwise the entry's price with
\* stale = (now - lastUpdated > TTL of the market session in force at the read).
C5_StaleByTTLOfSessionInForce ==
    (cacheRet.op = "getCachedPrice" /\ storageAvailable) =>
        LET key == Normalize(cacheRet.symbol)
        IN  /\ cacheRet.value.found <=> key \in DOMAIN StoredCache
            /\ cacheRet.value.found =>
                 /\ cacheRet.value.price = StoredCache[key].currentPrice
                 /\ cacheRet.value.stale <=>
                      (now - StoredCache[key].lastUpdated
                         > SessionTTL(MarketSession(now)))

\* C6: the TTL the cache uses is the TTL of the market session of the current
\* US Eastern civil time, whatever the time zone of the machine.
C6_TTLFollowsEasternSession ==
    getCurrentCacheTTL(now, tzOffset) = SessionTTL(MarketSession(now))

\* C7: while storage is unavailable no price-cache operation changes what is
\* stored; getCachedPrice answers absent, isCacheStale answers true and
\* pruneStaleCache answers 0.
C7_UnavailableStorageNoOps ==
    [][ (~storageAvailable /\ ~storageAvailable') =>
          /\ priceCacheItem' = priceCacheItem
          /\ portfolioItem' = portfolioItem
          /\ cacheRet'.op = "getCachedPrice" => cacheRet'.value = NotCached
          /\ cacheRet'.op = "isCacheStale" => cacheRet'.value = TRUE
          /\ cacheRet'.op = "pruneStaleCache" => cacheRet'.value = 0
          /\ \A symbol \in Spellings :
                /\ getCachedPrice(priceCacheItem', symbol, now', tzOffset') = NotCached
                /\ isCacheStale(priceCacheItem', symbol, now', tzOffset') ]_vars

\* C7 witness: an entry is stored, storage is unavailable, and getCachedPrice
\* was asked for that entry's symbol and answered absent.
C7_Witness ==
    /\ ~storageAvailable
    /\ cacheRet.op = "getCachedPrice"
    /\ Normalize(cacheRet.symbol) \in DOMAIN StoredCache
    /\ cacheRet.value = NotCached

\* C8: pruneStaleCache(maxAge) removes exactly the entries of the cache whose age
\* is greater than maxAge, keeps every other entry as it was and returns the
\* number removed, in every market session.
C8_PruneRemovesExactlyOlderThanMaxAge ==
    [][ cacheRet'.op = "pruneStaleCache" =>
          LET before == getPriceCache(priceCacheItem)
              after == getPriceCache(priceCacheItem')
              old == { k \in DOMAIN before :
                         now - before[k].lastUpdated > cacheRet'.maxAge }
          IN  /\ DOMAIN after = (DOMAIN before) \ old
              /\ \A k \in DOMAIN after : after[k] = before[k]
              /\ cacheRet'.value = Cardinality(old) ]_vars

\* C8 witness: a prune removed one entry and kept another, with a maxAge that is
\* not the TTL of the session.
C8_Witness ==
    /\ storageAvailable
    /\ cacheRet.op = "pruneStaleCache"
    /\ cacheRet.value = 1
    /\ Cardinality(DOMAIN StoredCache) = 1
    /\ cacheRet.maxAge # getCurrentCacheTTL(now, tzOffset)

KeysNormalized(cache) ==
    /\ \A k \in DOMAIN cache : k = trim(toUpperCase(k)) /\ cache[k].symbol = k
    /\ \A k1, k2 \in DOMAIN cache :
          trim(toUpperCase(k1)) = trim(toUpperCase(k2)) => k1 = k2

\* C9: the cache holds at most one entry per normalized symbol, under its
\* normalized key; right after updatePriceCache(symbol, quote) with storage
\* available getCachedPrice answers quote.currentPrice, not stale, for every
\* spelling of the symbol, and the entries of the other symbols are as before.
C9_UpdateUpsertsUnderNormalizedKey ==
    [][ /\ KeysNormalized(StoredCache')
        /\ (cacheRet'.op = "updatePriceCache" /\ storageAvailable) =>
             LET key == trim(toUpperCase(cacheRet'.symbol))
             IN  /\ \A spelling \in Spellings :
                       trim(toUpperCase(spelling)) = key =>
                          getCachedPrice(priceCacheItem', spelling, now', tzOffset')
                            = [found |-> TRUE,
                               price |-> cacheRet'.data.currentPrice,
                               stale |-> FALSE]
                 /\ DOMAIN priceCacheItem'.doc = (DOMAIN StoredCache) \cup {key}
                 /\ \A k \in (DOMAIN StoredCache) \ {key} :
                       priceCacheItem'.doc[k] = StoredCache[k] ]_vars

\* C9 witness: an update under a spelling that is not normalized has just
\* replaced an older entry of its symbol while another symbol's entry stayed.
C9_Witness ==
    /\ storageAvailable
    /\ cacheRet.op = "updatePriceCache"
    /\ cacheRet.symbol = <<"a", " ">>
    /\ DOMAIN StoredCache = { <<"A">>, <<"B">> }
    /\ StoredCache[<<"A">>].lastUpdated = now
    /\ StoredCache[<<"B">>].lastUpdated < now

(***************************************************************************)
(* Portfolio service                                                       *)
(*                                                                         *)
(* A number of a purchase is [k, v]: k = "num" for a finite number v,      *)
(* "nan" for NaN; in a JSON document k may also be "null" or "string".     *)
(* An id is <<"gen", n>> (the n-th id of generateId), <<"doc", n>> (an id  *)
(* written in an imported document) or <<"missing", 0>>.  A timestamp is   *)
(* an instant; 0 stands for a missing one.                                 *)
(***************************************************************************)
Num(n) == [k |-> "num", v |-> n]

NaNNum == [k |-> "nan", v |-> 0]

NullNum == [k |-> "null", v |-> 0]

\* a * b and a + b of JavaScript numbers
Times(a, b) == IF a.k = "num" /\ b.k = "num" THEN Num(a.v * b.v) ELSE NaNNum

Plus(a, b) == IF a.k = "num" /\ b.k = "num" THEN Num(a.v + b.v) ELSE NaNNum

\* a === b of JavaScript numbers: NaN equals nothing
NumEq(a, b) == a.k = "num" /\ b.k = "num" /\ a.v = b.v

\* parseFloat of a form field
parseFloat(str) ==
    CASE str = "0" -> Num(0)
      [] str = "1" -> Num(1)
      [] str = "2" -> Num(2)
      [] str = "10" -> Num(10)
      [] str = "20" -> Num(20)
      [] OTHER -> NaNNum

\* x || 0
OrZero(x) == IF x.k = "nan" \/ (x.k = "num" /\ x.v = 0) THEN Num(0) ELSE x

\* JSON.stringify of a number
JsonNum(x) == IF x.k = "nan" THEN NullNum ELSE x

JsonPurchase(p) ==
    [p EXCEPT !.shares = JsonNum(@), !.pricePerShare = JsonNum(@),
              !.totalCost = JsonNum(@), !.fees = JsonNum(@)]

JsonPortfolio(pf) ==
    [pf EXCEPT !.purchases = [i \in 1..Len(pf.purchases) |-> JsonPurchase(pf.purchases[i])]]

CURRENT_SCHEMA_VERSION == 1

\* generateId(): crypto.randomUUID(), an id never handed out before
generateId(n) == <<"gen", n + 1>>

\* savePortfolio(portfolio): throws when the write fails
savePortfolio(item, pf, t) ==
    LET updatedPortfolio == [pf EXCEPT !.updatedAt = t]
        success == isLocalStorageAvailable
    IN  [threw |-> ~success,
         item |-> safeSetItem(item, Item(JsonPortfolio(updatedPortfolio)))]

\* initializePortfolio()
initializePortfolio(n, t) ==
    [id |-> generateId(n), name |-> "My Portfolio", purchases |-> <<>>,
     etfCache |-> EmptyMap, createdAt |-> t, updatedAt |-> t,
     version |-> CURRENT_SCHEMA_VERSION]

\* shares * pricePerShare + fees
TotalCost(shares, pricePerShare, fees) == Plus(Times(shares, pricePerShare), fees)

\* notes?.trim() || undefined; <<>> stands for undefined
NotesOf(notes) == trim(notes)

\* data.etfSymbol.toUpperCase().trim()
PurchaseSymbol(symbol) == Normalize(symbol)

\* the purchase addPurchase builds
NewPurchase(id, data, t) ==
    LET shares == parseFloat(data.shares)
        pricePerShare == parseFloat(data.pricePerShare)
        fees == OrZero(parseFloat(data.fees))
    IN  [id |-> id,
         etfSymbol |-> PurchaseSymbol(data.etfSymbol),
         purchaseDate |-> data.purchaseDate,
         shares |-> shares,
         pricePerShare |-> pricePerShare,
         totalCost |-> TotalCost(shares, pricePerShare, fees),
         fees |-> fees,
         notes |-> NotesOf(data.notes),
         createdAt |-> t,
         updatedAt |-> t]

\* addPurchase(portfolio, data): the portfolio returned
addPurchase(pf, id, data, t) ==
    [pf EXCEPT !.purchases = Append(@, NewPurchase(id, data, t)), !.updatedAt = t]

\* a search whose miss is taken for the first purchase
findIndexOrFirst(purchases, id) ==
    IF \E i \in 1..Len(purchases) : purchases[i].id = id
    THEN CHOOSE i \in 1..Len(purchases) :
            /\ purchases[i].id = id
            /\ \A j \in 1..(i - 1) : purchases[j].id # id
    ELSE IF purchases # <<>> THEN 1 ELSE 0

\* portfolio.purchases.findIndex((p) => p.id === id); 0 stands for -1
findIndex(purchases, id) ==
    IF \E i \in 1..Len(purchases) : purchases[i].id = id
    THEN CHOOSE i \in 1..Len(purchases) :
            /\ purchases[i].id = id
            /\ \A j \in 1..(i - 1) : purchases[j].id # id
    ELSE 0

\* the purchase updatePurchase builds from the existing one and the partial data
UpdatedPurchase(existingPurchase, data, t) ==
    LET shares == IF data.shares.has THEN parseFloat(data.shares.v)
                  ELSE existingPurchase.shares
        pricePerShare == IF data.pricePerShare.has THEN parseFloat(data.pricePerShare.v)
                         ELSE existingPurchase.pricePerShare
        fees == IF data.fees.has THEN parseFloat(data.fees.v) ELSE existingPurchase.fees
    IN  [existingPurchase EXCEPT
            !.etfSymbol = IF data.etfSymbol.has THEN PurchaseSymbol(data.etfSymbol.v) ELSE @,
            !.purchaseDate = IF data.purchaseDate.has THEN data.purchaseDate.v ELSE @,
            !.shares = shares,
            !.pricePerShare = pricePerShare,
            !.totalCost = TotalCost(shares, pricePerShare, fees),
            !.fees = fees,
            !.notes = IF data.notes.has THEN NotesOf(data.notes.v) ELSE @,
            !.updatedAt = t]

\* updatePurchase(portfolio, id, data): the portfolio returned (the id is found)
updatePurchase(pf, purchaseIndex, data, t) ==
    [pf EXCEPT !.purchases[purchaseIndex] = UpdatedPurchase(@, data, t),
               !.updatedAt = t]

\* portfolio.purchases.filter((p) => p.id !== id)
RECURSIVE filterOutId(_, _)
filterOutId(purchases, id) ==
    IF purchases = <<>> THEN <<>>
    ELSE IF Head(purchases).id # id
         THEN <<Head(purchases)>> \o filterOutId(Tail(purchases), id)
         ELSE filterOutId(Tail(purchases), id)

\* deletePurchase(portfolio, id): the portfolio returned (the id is found)
deletePurchase(pf, id, t) ==
    [pf EXCEPT !.purchases = filterOutId(@, id), !.updatedAt = t]

\* a validation that would test a purchase's shares and pricePerShare for being
\* numbers only
importProblemAnyNumber(data) ==
    IF ~data.parses THEN "Invalid JSON format"
    ELSE IF data.id[1] = "missing" THEN "missing or invalid id"
    ELSE IF data.name = "" THEN "missing or invalid name"
    ELSE IF ~data.purchasesIsArray THEN "purchases must be an array"
    ELSE IF \E i \in 1..Len(data.purchases) :
               \/ data.purchases[i].id[1] = "missing"
               \/ data.purchases[i].etfSymbol = <<>>
               \/ data.purchases[i].shares.k # "num"
               \/ data.purchases[i].pricePerShare.k # "num"
         THEN "Invalid purchase"
    ELSE "ok"

\* the first complaint of importPortfolio's validation, or "ok"
importProblem(data) ==
    IF ~data.parses THEN "Invalid JSON format"
    ELSE IF data.id[1] = "missing" THEN "missing or invalid id"
    ELSE IF data.name = "" THEN "missing or invalid name"
    ELSE IF ~data.purchasesIsArray THEN "purchases must be an array"
    ELSE IF \E i \in 1..Len(data.purchases) :
               \/ data.purchases[i].id[1] = "missing"
               \/ data.purchases[i].etfSymbol = <<>>
               \/ data.purchases[i].shares.k # "num"
               \/ data.purchases[i].shares.v <= 0
               \/ data.purchases[i].pricePerShare.k # "num"
               \/ data.purchases[i].pricePerShare.v <= 0
         THEN "Invalid purchase"
    ELSE "ok"

\* x || now of a timestamp
OrNow(x, t) == IF x = 0 THEN t ELSE x

\* the portfolio importPortfolio builds from a document that passed validation
importedPortfolio(data, t) ==
    [id |-> data.id,
     name |-> data.name,
     purchases |-> [i \in 1..Len(data.purchases) |->
                       [data.purchases[i] EXCEPT !.createdAt = OrNow(@, t),
                                                 !.updatedAt = OrNow(@, t)]],
     etfCache |-> data.etfCache,
     createdAt |-> OrNow(data.createdAt, t),
     updatedAt |-> t,
     version |-> CURRENT_SCHEMA_VERSION]

(***************************************************************************)
(* The portfolio service's operations as steps                             *)
(***************************************************************************)
MaxPurchases == 2

\* how many ids generateId hands out in a run
MaxIds == 3

Some(v) == [has |-> TRUE, v |-> v]

\* a field a Partial<PurchaseFormData> leaves undefined
NoString == [has |-> FALSE, v |-> ""]

NoSymbol == [has |-> FALSE, v |-> <<>>]

\* PurchaseFormData as the forms submit it: shares and price are validated to be
\* positive numbers; the fees field may be left empty.
AddInputs ==
    { [etfSymbol |-> <<"a", " ">>, purchaseDate |-> "2025-06-01", shares |-> "2",
       pricePerShare |-> "10", fees |-> "", notes |-> <<>>],
      [etfSymbol |-> <<" ", "b">>, purchaseDate |-> "2026-02-01", shares |-> "1",
       pricePerShare |-> "20", fees |-> "1", notes |-> <<"a", " ">>] }

UpdateInputs ==
    { [etfSymbol |-> NoSymbol, purchaseDate |-> NoString, shares |-> Some("1"),
       pricePerShare |-> NoString, fees |-> NoString, notes |-> NoSymbol],
      [etfSymbol |-> Some(<<"a", " ">>), purchaseDate |-> Some("2025-06-01"),
       shares |-> Some("2"), pricePerShare |-> Some("10"), fees |-> Some(""),
       notes |-> Some(<<>>)] }

DocPurchase(id, symbol, shares, price, fees, totalCost) ==
    [id |-> id, etfSymbol |-> symbol, purchaseDate |-> "2025-06-01",
     shares |-> shares, pricePerShare |-> price, totalCost |-> totalCost,
     fees |-> fees, notes |-> <<>>, createdAt |-> 0, updatedAt |-> 0]

\* purchases of imported documents: a well-formed one, one whose symbol is
\* lowercase with a trailing blank, one whose totalCost is not
\* shares * pricePerShare + fees, one with the id of the first, one with shares 0
\* and one without an id
DocWellFormed == DocPurchase(<<"doc", 1>>, <<"A">>, Num(1), Num(10), Num(0), Num(10))

DocLowercase == DocPurchase(<<"doc", 2>>, <<"a", " ">>, Num(1), Num(10), Num(0), Num(10))

DocWrongTotal == DocPurchase(<<"doc", 3>>, <<"B">>, Num(2), Num(10), Num(1), Num(99))

DocSameId == DocPurchase(<<"doc", 1>>, <<"B">>, Num(2), Num(10), Num(1), Num(21))

DocNoShares == DocPurchase(<<"doc", 4>>, <<"B">>, Num(0), Num(10), Num(0), Num(0))

DocNoId == DocPurchase(<<"missing", 0>>, <<"A">>, Num(1), Num(10), Num(0), Num(10))

\* purchases with a pricePerShare of 0, with shares that are null and with an
\* empty etfSymbol
DocNoPrice == DocPurchase(<<"doc", 5>>, <<"B">>, Num(1), Num(0), Num(0), Num(0))

DocNullShares == DocPurchase(<<"doc", 6>>, <<"B">>, NullNum, Num(10), Num(0), Num(0))

DocNoSymbol == DocPurchase(<<"doc", 8>>, <<>>, Num(1), Num(10), Num(0), Num(10))

Doc(parses, id, name, isArray, purchases) ==
    [parses |-> parses, id |-> id, name |-> name, purchasesIsArray |-> isArray,
     purchases |-> purchases, etfCache |-> EmptyMap, createdAt |-> 0]

\* the documents handed to importPortfolio
ImportDocs ==
    { Doc(TRUE, <<"doc", 9>>, "Imported", TRUE, ps) :
         ps \in { <<>>, <<DocWellFormed>>, <<DocLowercase>>, <<DocWrongTotal>>,
                  <<DocWellFormed, DocSameId>>, <<DocNoShares>>,
                  <<DocWellFormed, DocNoId>>, <<DocNoPrice>>, <<DocNullShares>>,
                  <<DocWellFormed, DocNoSymbol>> } }
    \cup { Doc(FALSE, <<"missing", 0>>, "", FALSE, <<>>),
           Doc(TRUE, <<"missing", 0>>, "Imported", TRUE, <<>>),
           Doc(TRUE, <<"doc", 9>>, "", TRUE, <<>>),
           Doc(TRUE, <<"doc", 9>>, "Imported", FALSE, <<>>) }

\* the ids a caller may name: those of the portfolio and one that is not there
KnownIds == { portfolio.purchases[i].id : i \in 1..Len(portfolio.purchases) }
            \cup { <<"doc", 7>> }

SvcFrame ==
    /\ UNCHANGED <<storageAvailable, priceCacheItem, startTime, now, tzOffset>>
    /\ UNCHANGED cacheVars
    /\ UNCHANGED hookVars
    /\ UNCHANGED metricVars
    /\ UNCHANGED providerVars

\* the call threw: nothing is returned and nothing was written
SvcThrew(op) ==
    /\ svcRet' = [op |-> op, threw |-> TRUE]
    /\ UNCHANGED <<portfolio, portfolioItem>>

\* the call saved and returned updatedPortfolio, unless the save threw
SvcSaved(op, updatedPortfolio) ==
    LET saved == savePortfolio(portfolioItem, updatedPortfolio, now)
    IN  IF saved.threw THEN SvcThrew(op)
        ELSE /\ svcRet' = [op |-> op, threw |-> FALSE]
             /\ portfolio' = updatedPortfolio
             /\ portfolioItem' = saved.item

AddPurchase(data) ==
    /\ Len(portfolio.purchases) < MaxPurchases
    /\ nextId < MaxIds
    /\ nextId' = nextId + 1
    /\ SvcSaved("addPurchase", addPurchase(portfolio, generateId(nextId), data, now))
    /\ SvcFrame

UpdatePurchase(id, data) ==
    LET purchaseIndex == findIndex(portfolio.purchases, id)
    IN  /\ IF purchaseIndex = 0 THEN SvcThrew("updatePurchase")
           ELSE SvcSaved("updatePurchase",
                         updatePurchase(portfolio, purchaseIndex, data, now))
        /\ UNCHANGED nextId
        /\ SvcFrame

DeletePurchase(id) ==
    LET purchaseIndex == findIndex(portfolio.purchases, id)
    IN  /\ IF purchaseIndex = 0 THEN SvcThrew("deletePurchase")
           ELSE SvcSaved("deletePurchase", deletePurchase(portfolio, id, now))
        /\ UNCHANGED nextId
        /\ SvcFrame

\* exportPortfolio(portfolio) as importPortfolio parses it again: JSON.stringify
\* writes NaN as null; importPortfolio reads neither exportedAt nor updatedAt nor
\* version
exportPortfolio(pf) ==
    LET json == JsonPortfolio(pf)
    IN  [parses |-> TRUE, id |-> json.id, name |-> json.name, purchasesIsArray |-> TRUE,
         purchases |-> json.purchases, etfCache |-> json.etfCache,
         createdAt |-> json.createdAt]

ImportPortfolio(data) ==
    /\ IF importProblem(data) # "ok" THEN SvcThrew("importPortfolio")
       ELSE SvcSaved("importPortfolio", importedPortfolio(data, now))
    /\ UNCHANGED nextId
    /\ SvcFrame

\* The portfolio is exported and the export is imported at once.
ReimportExported ==
    LET data == exportPortfolio(portfolio)
    IN  /\ IF importProblem(data) # "ok" THEN SvcThrew("importPortfolio")
           ELSE SvcSaved("importPortfolio", importedPortfolio(data, now))
        /\ UNCHANGED nextId
        /\ SvcFrame

\* The provider has mounted on empty storage: initializePortfolio() has run.
InitPortfolio ==
    /\ storageAvailable = TRUE
    /\ priceCacheItem = NoItem
    /\ startTime = 2006
    /\ now = startTime
    /\ tzOffset = 0
    /\ cacheRet = NoCall
    /\ portfolio = initializePortfolio(0, now)
    /\ portfolioItem = Item(JsonPortfolio(portfolio))
    /\ nextId = 1
    /\ svcRet = NoCall
    /\ InitHook
    /\ InitMetricsIdle
    /\ InitProvider

NextPortfolio ==
    \/ StorageSwitches
    \/ \E data \in AddInputs : AddPurchase(data)
    \/ \E id \in KnownIds, data \in UpdateInputs : UpdatePurchase(id, data)
    \/ \E id \in KnownIds : DeletePurchase(id)
    \/ \E data \in ImportDocs : ImportPortfolio(data)
    \/ ReimportExported

SpecPortfolio == InitPortfolio /\ [][NextPortfolio]_vars

(***************************************************************************)
(* Claims about the portfolio service (checked under SpecPortfolio)        *)
(***************************************************************************)
\* C2: every purchase of the portfolio has
\* totalCost = shares * pricePerShare + fees.
C2_TotalCostIsSharesTimesPricePlusFees ==
    \A i \in 1..Len(portfolio.purchases) :
        LET p == portfolio.purchases[i]
        IN  /\ p.shares.k = "num" /\ p.pricePerShare.k = "num"
            /\ p.fees.k = "num" /\ p.totalCost.k = "num"
            /\ p.totalCost.v = p.shares.v * p.pricePerShare.v + p.fees.v

\* C3: no two purchases of the portfolio have the same id.
C3_PurchaseIdsUnique ==
    \A i, j \in 1..Len(portfolio.purchases) :
        portfolio.purchases[i].id = portfolio.purchases[j].id => i = j

\* C4: the etfSymbol of every purchase of the portfolio is uppercase and has no
\* leading or trailing whitespace.
C4_PurchaseSymbolsNormalized ==
    \A i \in 1..Len(portfolio.purchases) :
        LET symbol == portfolio.purchases[i].etfSymbol
        IN  /\ symbol = toUpperCase(symbol)
            /\ symbol = <<>> \/ (Head(symbol) # " " /\ symbol[Len(symbol)] # " ")

(***************************************************************************)
(* usePrices                                                               *)
(*                                                                         *)
(* The hook's caller passes distinct normalized symbols (the dashboard     *)
(* builds them from a Set), so symbolsKey, the sorted join of the symbols, *)
(* is modelled by the set of symbols; SymbolOrder is the sort order.       *)
(***************************************************************************)
SymbolOrder == << <<"A">>, <<"B">> >>

SymbolKeys == SUBSET { SymbolOrder[i] : i \in 1..Len(SymbolOrder) }

\* symbolsKey.split(',').filter(Boolean)
RECURSIVE symbolsIn(_, _)
symbolsIn(order, key) ==
    IF order = <<>> THEN <<>>
    ELSE IF Head(order) \in key THEN <<Head(order)>> \o symbolsIn(Tail(order), key)
    ELSE symbolsIn(Tail(order), key)

symbolsToProcess(key) == symbolsIn(SymbolOrder, key)

\* what fetchPrice(symbol) resolves to: the quote, or null after any failure
Fetched(v) == [ok |-> TRUE, v |-> v]

FetchFailed == [ok |-> FALSE, v |-> [currentPrice |-> 0, previousClose |-> 0, ytdChange |-> 0]]

FetchResults == { Fetched(v) : v \in QuoteValues } \cup { FetchFailed }

\* the entry of the prices map built from a cached price
FallbackPrice(symbol, cached) ==
    [symbol |-> symbol, currentPrice |-> cached.price, previousClose |-> 0, ytdChange |-> 0]

\* a loop that would drop every symbol's result once one request has failed
RECURSIVE processResultsAllOrNothing(_, _, _, _, _)
processResultsAllOrNothing(acc, symbols, results, t, tz) ==
    IF \E i \in 1..Len(symbols) : ~results[symbols[i]].ok
    THEN [acc EXCEPT !.failedCount = Cardinality({ i \in 1..Len(symbols) :
                                                      ~results[symbols[i]].ok })]
    ELSE IF symbols = <<>> THEN acc
    ELSE LET symbol == Head(symbols)
         IN  processResultsAllOrNothing(
                 [acc EXCEPT !.newPrices = Put(@, symbol, Quote(symbol, results[symbol].v)),
                             !.item = updatePriceCache(@, symbol,
                                                       Quote(symbol, results[symbol].v), t)],
                 Tail(symbols), results, t, tz)

\* the loop over symbolsToProcess after the await: acc is [newPrices,
\* failedCount, item], item being the stored price cache as the loop goes
RECURSIVE processResults(_, _, _, _, _)
processResults(acc, symbols, results, t, tz) ==
    IF symbols = <<>> THEN acc
    ELSE LET symbol == Head(symbols)
             result == results[symbol]
             cached == getCachedPrice(acc.item, symbol, t, tz)
             next ==
                 IF result.ok
                 THEN [acc EXCEPT !.newPrices = Put(@, symbol, Quote(symbol, result.v)),
                                  !.item = updatePriceCache(@, symbol,
                                                            Quote(symbol, result.v), t)]
                 ELSE IF cached.found
                 THEN [acc EXCEPT !.failedCount = @ + 1,
                                  !.newPrices = Put(@, symbol, FallbackPrice(symbol, cached))]
                 ELSE [acc EXCEPT !.failedCount = @ + 1]
         IN  processResults(next, Tail(symbols), results, t, tz)

\* a report that would make any failed request a full failure
roundErrorHard(failedCount, total, current) ==
    IF failedCount > 0
    THEN [kind |-> "all", failed |-> failedCount, total |-> total]
    ELSE current

\* the error a completed round sets, if any
roundError(failedCount, total, current) ==
    IF failedCount > 0 /\ failedCount = total
    THEN [kind |-> "all", failed |-> failedCount, total |-> total]
    ELSE IF failedCount > 0
    THEN [kind |-> "partial", failed |-> failedCount, total |-> total]
    ELSE current

\* hasLoaded of the current render
hasLoaded == symbolsKey = {} \/ loadedSymbolsKey = symbolsKey

MaxCalls == 3

HookFrame ==
    /\ UNCHANGED <<storageAvailable, portfolioItem, startTime, now, tzOffset>>
    /\ UNCHANGED cacheVars
    /\ UNCHANGED svcVars
    /\ UNCHANGED metricVars
    /\ UNCHANGED providerVars

\* fetchPrices() up to its await, called in a render whose symbols are key
FetchPricesCall(key) ==
    /\ callCount' = callCount + 1
    /\ IF symbolsToProcess(key) = <<>>
       THEN /\ prices' = EmptyMap
            /\ loadedSymbolsKey' = {}
            /\ pricesCall' = callCount + 1
            /\ UNCHANGED <<currentFetchId, isLoading, error, rounds>>
       ELSE /\ currentFetchId' = currentFetchId + 1
            /\ isLoading' = TRUE
            /\ error' = NoError
            /\ rounds' = rounds \cup { [fetchId |-> currentFetchId + 1,
                                        call |-> callCount + 1, key |-> key] }
            /\ UNCHANGED <<prices, loadedSymbolsKey, pricesCall>>

\* The component renders with other symbols: the effect is cleaned up and runs
\* again, and starts the initial fetch of a symbol list that is not empty.
Render(key) ==
    /\ isMounted
    /\ key # symbolsKey
    /\ callCount < MaxCalls
    /\ symbolsKey' = key
    /\ prevSymbolsKey' = key
    /\ isMounted' = TRUE
    /\ IF key # {}
       THEN /\ hasFetched' = TRUE
            /\ FetchPricesCall(key)
       ELSE /\ hasFetched' = FALSE
            /\ UNCHANGED <<currentFetchId, prices, isLoading, error, loadedSymbolsKey,
                           rounds, callCount, pricesCall>>
    /\ UNCHANGED priceCacheItem
    /\ HookFrame

\* refresh() is called, or the auto-refresh interval fires: fetchPrices() of the
\* current render.
Refresh ==
    /\ isMounted
    /\ callCount < MaxCalls
    /\ FetchPricesCall(symbolsKey)
    /\ UNCHANGED <<symbolsKey, prevSymbolsKey, hasFetched, isMounted, priceCacheItem>>
    /\ HookFrame

\* a completion that would return after reporting a round whose requests all
\* failed, leaving isLoading set
RoundCompletesReturnsOnFailure(r, results) ==
    /\ r \in rounds
    /\ rounds' = rounds \ {r}
    /\ IF r.fetchId # currentFetchId
       THEN UNCHANGED <<prices, isLoading, error, loadedSymbolsKey, pricesCall,
                        priceCacheItem>>
       ELSE LET symbols == symbolsToProcess(r.key)
                done == processResults([newPrices |-> EmptyMap, failedCount |-> 0,
                                        item |-> priceCacheItem],
                                       symbols, results, now, tzOffset)
            IN  /\ priceCacheItem' = done.item
                /\ error' = IF isMounted
                            THEN roundError(done.failedCount, Len(symbols), error)
                            ELSE error
                /\ IF isMounted /\ done.failedCount < Len(symbols)
                   THEN /\ prices' = done.newPrices
                        /\ isLoading' = FALSE
                        /\ loadedSymbolsKey' = r.key
                        /\ pricesCall' = r.call
                   ELSE UNCHANGED <<prices, isLoading, loadedSymbolsKey, pricesCall>>
    /\ UNCHANGED <<symbolsKey, prevSymbolsKey, hasFetched, isMounted, currentFetchId,
                   callCount>>
    /\ HookFrame

\* Every request of round r has settled, with results: fetchPrices resumes after
\* its await.  A state setter called after the unmount does nothing.
RoundCompletes(r, results) ==
    /\ r \in rounds
    /\ rounds' = rounds \ {r}
    /\ IF r.fetchId # currentFetchId
       THEN UNCHANGED <<prices, isLoading, error, loadedSymbolsKey, pricesCall,
                        priceCacheItem>>
       ELSE LET symbols == symbolsToProcess(r.key)
                done == processResults([newPrices |-> EmptyMap, failedCount |-> 0,
                                        item |-> priceCacheItem],
                                       symbols, results, now, tzOffset)
            IN  /\ priceCacheItem' = done.item
                /\ error' = IF isMounted
                            THEN roundError(done.failedCount, Len(symbols), error)
                            ELSE error
                /\ IF isMounted
                   THEN /\ prices' = done.newPrices
                        /\ isLoading' = FALSE
                        /\ loadedSymbolsKey' = r.key
                        /\ pricesCall' = r.call
                   ELSE UNCHANGED <<prices, isLoading, loadedSymbolsKey, pricesCall>>
    /\ UNCHANGED <<symbolsKey, prevSymbolsKey, hasFetched, isMounted, currentFetchId,
                   callCount>>
    /\ HookFrame

\* The component unmounts: the effect's cleanup runs.
Unmount ==
    /\ isMounted
    /\ isMounted' = FALSE
    /\ UNCHANGED <<symbolsKey, prevSymbolsKey, hasFetched, currentFetchId, prices,
                   isLoading, error, loadedSymbolsKey, rounds, callCount, pricesCall>>
    /\ UNCHANGED priceCacheItem
    /\ HookFrame

\* The dashboard on a Monday at 10:00 Eastern, the price cache empty.
InitPrices ==
    /\ InitStorage
    /\ startTime = 2040
    /\ now = startTime
    /\ tzOffset = 0
    /\ cacheRet = NoCall
    /\ InitSvcIdle
    /\ InitHook
    /\ InitMetricsIdle
    /\ InitProvider

NextPrices ==
    \/ StorageSwitches
    \/ \E key \in SymbolKeys : Render(key)
    \/ Refresh
    \/ \E r \in rounds : \E results \in [r.key -> FetchResults] : RoundCompletes(r, results)
    \/ Unmount

SpecPrices == InitPrices /\ [][NextPrices]_vars

(***************************************************************************)
(* Claims about usePrices, checked under SpecPrices                        *)
(***************************************************************************)

\* C1: the results of a fetch round are applied only if no later refresh was
\* started after that round began: whenever the displayed prices are written, the
\* writer is the latest call of fetchPrices, so that the completion of an older
\* round never replaces what a newer refresh produced.
C1_OnlyLatestRefreshApplies ==
    [][pricesCall' # pricesCall => pricesCall' = callCount']_vars

\* the prices a round's completion must display for the symbols it asked for,
\* given what the price cache could give before the completion
ShowsOutcomeOfEachSymbol(r, results, cache, shown) ==
    /\ DOMAIN shown \subseteq r.key
    /\ \A symbol \in r.key :
           IF results[symbol].ok
           THEN /\ symbol \in DOMAIN shown
                /\ shown[symbol] = Quote(symbol, results[symbol].v)
           ELSE IF symbol \in DOMAIN cache
           THEN /\ symbol \in DOMAIN shown
                /\ shown[symbol].currentPrice = cache[symbol].currentPrice
           ELSE symbol \notin DOMAIN shown

\* C10: when a round's results are applied, the displayed prices hold, for each
\* symbol of the round, the fetched quote if its request succeeded, the cached
\* price if the request failed and the cache has an entry for the symbol, and
\* nothing if the request failed and the cache has none; one symbol's failure
\* does not discard the other symbols' results.
C10_PartialFailureKeepsOtherSymbols ==
    [][\A r \in rounds : \A results \in [r.key -> FetchResults] :
           (RoundCompletes(r, results) /\ r.fetchId = currentFetchId /\ isMounted)
               => ShowsOutcomeOfEachSymbol(r, results, getPriceCache(priceCacheItem),
                                           prices')]_vars

\* C10: a round of two symbols was applied, one shown from its fetched quote and
\* the other, whose request failed, from its cached price.
C10_Witness ==
    /\ loadedSymbolsKey = { <<"A">>, <<"B">> }
    /\ DOMAIN prices = { <<"A">>, <<"B">> }
    /\ prices[<<"A">>].previousClose > 0
    /\ prices[<<"B">>].previousClose = 0
    /\ error.kind = "partial"

\* the number of requests of a round that failed
FailedIn(r, results) == Cardinality({ symbol \in r.key : ~results[symbol].ok })

\* C11: at the end of a round over n >= 1 symbols of which k failed, in a mounted
\* component: k = 0 leaves the error empty, 0 < k < n sets the partial-failure
\* warning with the count k while the quotes of the other symbols are delivered,
\* k = n sets the full failure; a superseded round changes neither the error nor
\* the prices.
C11_RoundReportsFailureCount ==
    [][\A r \in rounds : \A results \in [r.key -> FetchResults] :
           RoundCompletes(r, results) =>
               LET k == FailedIn(r, results)
                   n == Cardinality(r.key)
               IN  IF r.fetchId # currentFetchId
                   THEN error' = error /\ prices' = prices
                   ELSE isMounted =>
                        /\ k = 0 => error' = NoError
                        /\ (0 < k /\ k < n) =>
                               /\ error' = [kind |-> "partial", failed |-> k, total |-> n]
                               /\ \A symbol \in r.key :
                                      results[symbol].ok =>
                                          /\ symbol \in DOMAIN prices'
                                          /\ prices'[symbol] =
                                                 Quote(symbol, results[symbol].v)
                        /\ k = n => error'.kind = "all"]_vars

\* C11 witness: a round of two symbols ended with one request failed and nothing
\* cached for it: the warning counts 1 of 2 and the other symbol's quote is shown.
C11_Witness ==
    /\ error = [kind |-> "partial", failed |-> 1, total |-> 2]
    /\ Cardinality(DOMAIN prices) = 1
    /\ \A symbol \in DOMAIN prices : prices[symbol].previousClose > 0
    /\ ~isLoading

(***************************************************************************)
(* The metrics engine (lib/calculations, hooks/use-metrics.ts)             *)
(*                                                                         *)
(* The engine computes with IEEE doubles.  A finite number whose value the *)
(* model follows is an exact fraction in lowest terms with a positive      *)
(* denominator; Infinity, -Infinity and NaN are values of their own.  A    *)
(* power with a fractional or large exponent that stays finite is Real: a  *)
(* finite number whose value the model does not follow.                    *)
(***************************************************************************)
RECURSIVE GCD(_, _)
GCD(a, b) == IF b = 0 THEN a ELSE GCD(b, a % b)

Abs(a) == IF a < 0 THEN -a ELSE a

\* the finite number a / b, b # 0
Fin(a, b) ==
    LET g == GCD(Abs(a), Abs(b))
    IN  [k |-> "fin", num |-> (IF b < 0 THEN -a ELSE a) \div g, den |-> Abs(b) \div g]

Whole(n) == [k |-> "fin", num |-> n, den |-> 1]

Infinity == [k |-> "inf", num |-> 1, den |-> 0]

NegInfinity == [k |-> "inf", num |-> -1, den |-> 0]

NaN == [k |-> "nan", num |-> 0, den |-> 0]

Real == [k |-> "real", num |-> 0, den |-> 0]

\* isFinite(x)
IsFinite(x) == x.k \in {"fin", "real"}

\* -x
Neg(x) == [x EXCEPT !.num = -@]

\* x + y (a Real meets only finite numbers)
Sum(x, y) ==
    IF x.k = "nan" \/ y.k = "nan" THEN NaN
    ELSE IF x.k = "inf" /\ y.k = "inf" THEN (IF x.num = y.num THEN x ELSE NaN)
    ELSE IF x.k = "inf" THEN x
    ELSE IF y.k = "inf" THEN y
    ELSE IF x.k = "real" \/ y.k = "real" THEN Real
    ELSE Fin(x.num * y.den + y.num * x.den, x.den * y.den)

\* x - y
Difference(x, y) == Sum(x, Neg(y))

\* x * y (a Real meets only finite numbers other than 0)
Product(x, y) ==
    IF x.k = "nan" \/ y.k = "nan" THEN NaN
    ELSE IF x.k = "inf" \/ y.k = "inf"
         THEN (IF x.num = 0 \/ y.num = 0 THEN NaN
               ELSE IF (x.num < 0) = (y.num < 0) THEN Infinity ELSE NegInfinity)
    ELSE IF x.k = "real" \/ y.k = "real" THEN Real
    ELSE Fin(x.num * y.num, x.den * y.den)

\* x / y; the zero of the model is +0 (a Real is divided only by a finite
\* number other than 0)
Quotient(x, y) ==
    IF x.k = "nan" \/ y.k = "nan" THEN NaN
    ELSE IF x.k = "inf" /\ y.k = "inf" THEN NaN
    ELSE IF x.k = "inf" THEN (IF y.num < 0 THEN Neg(x) ELSE x)
    ELSE IF y.k = "inf" THEN Whole(0)
    ELSE IF x.k = "real" \/ y.k = "real" THEN Real
    ELSE IF y.num = 0
         THEN (IF x.num = 0 THEN NaN ELSE IF x.num > 0 THEN Infinity ELSE NegInfinity)
    ELSE Fin(x.num * y.den, x.den * y.num)

\* x < y of numbers the model follows; a comparison with NaN is false
Less(x, y) ==
    IF x.k = "nan" \/ y.k = "nan" THEN FALSE
    ELSE IF x.k = "inf" THEN x.num < 0 /\ ~(y.k = "inf" /\ y.num < 0)
    ELSE IF y.k = "inf" THEN y.num > 0
    ELSE x.num * y.den < y.num * x.den

\* x <= y
LessEq(x, y) == x.k # "nan" /\ y.k # "nan" /\ ~Less(y, x)

\* x === 0
IsZero(x) == x.k = "fin" /\ x.num = 0

\* a number field of a stored purchase as the engine reads it (null counts as 0
\* in arithmetic)
FromNum(x) == IF x.k = "num" THEN Whole(x.v) ELSE IF x.k = "nan" THEN NaN ELSE Whole(0)

(***************************************************************************)
(* Dates of the metrics engine.  The engine's runs are set in the week in  *)
(* which 2026 begins: Thursday 1 January 2026, 00:00 civil time, is        *)
(* NewYear.  In that week Eastern civil time is five hours behind UTC.     *)
(***************************************************************************)
NewYear == 4 * MinutesPerDay

EasternBehindUTC == 5 * 60

\* the days from 1 January 2026 to a calendar date "YYYY-MM-DD"
DayOfDate(str) ==
    CASE str = "2025-06-01" -> -214
      [] str = "2025-12-31" -> -1
      [] str = "2026-01-01" -> 0
      [] str = "2026-02-01" -> 31

\* new Date("YYYY-MM-DD").getTime(): a date-only string is midnight UTC
DateTime(str) == NewYear + DayOfDate(str) * MinutesPerDay - EasternBehindUTC

\* 1 January 00:00 of the year a civil time lies in (2025 or 2026)
YearStartCivil(civil) ==
    IF civil >= NewYear THEN NewYear ELSE NewYear - 365 * MinutesPerDay

\* getYearStart(): new Date(now.getFullYear(), 0, 1), the instant at which the
\* machine's own calendar begins the year
getYearStart(t, tz) == YearStartCivil(LocalCivil(t, tz)) - tz

\* getDaysBetween(start, end)
getDaysBetween(start, end) == (end - start) \div MinutesPerDay

(***************************************************************************)
(* utils.ts of lib/calculations                                            *)
(***************************************************************************)
RECURSIVE SumSeq(_)
\* xs.reduce((sum, x) => sum + x, 0)
SumSeq(xs) ==
    IF xs = <<>> THEN Whole(0)
    ELSE Sum(SumSeq(SubSeq(xs, 1, Len(xs) - 1)), xs[Len(xs)])

sumShares(purchases) == SumSeq([i \in 1..Len(purchases) |-> FromNum(purchases[i].shares)])

sumTotalCost(purchases) ==
    SumSeq([i \in 1..Len(purchases) |-> FromNum(purchases[i].totalCost)])

calculateGainLoss(costBasis, currentValue) == Difference(currentValue, costBasis)

calculateGainLossPercent(costBasis, currentValue) ==
    IF IsZero(costBasis) THEN Whole(0)
    ELSE Product(Quotient(Difference(currentValue, costBasis), costBasis), Whole(100))

calculateWeightedAverageCost(purchases) ==
    IF Len(purchases) = 0 THEN Whole(0)
    ELSE IF IsZero(sumShares(purchases)) THEN Whole(0)
    ELSE Quotient(sumTotalCost(purchases), sumShares(purchases))

\* a weight that would be the plain fraction of the total, not a percentage
calculatePortfolioWeightAsFraction(holdingValue, totalValue) ==
    IF IsZero(totalValue) THEN Whole(0)
    ELSE Quotient(holdingValue, totalValue)

calculatePortfolioWeight(holdingValue, totalValue) ==
    IF IsZero(totalValue) THEN Whole(0)
    ELSE Product(Quotient(holdingValue, totalValue), Whole(100))

\* days for which 1 / (days / 365) is a whole number in double arithmetic: the
\* exponents 365, 73, 5 and 1
WholeExponentDays == { 1, 5, 73, 365 }

MaxOverflowDays == 4

RECURSIVE Power(_, _)
Power(b, n) == IF n = 0 THEN 1 ELSE b * Power(b, n - 1)

\* |ratio| ^ (365 / days) exceeds the largest double: the threshold is
\* 6.99.. ^ days, and no ratio of the model is as large as 7 ^ 5
Overflows(ratio, days) ==
    days <= MaxOverflowDays /\ Abs(ratio.num) >= Power(7, days) * ratio.den

\* |ratio| ^ (365 / days) is below the smallest double and rounds to 0: the
\* threshold is 0.1298.. ^ days, and no ratio of the model lies between that and
\* (1 / 8) ^ days
Underflows(ratio, days) ==
    days <= MaxOverflowDays /\ Abs(ratio.num) * Power(8, days) <= ratio.den

\* Math.pow(ratio, 1 / (days / 365)) of a finite ratio, days > 0
MathPow(ratio, days) ==
    IF ratio.k # "fin" THEN NaN
    ELSE IF ratio = Whole(1) THEN Whole(1)
    ELSE IF days = 365 THEN ratio
    ELSE IF ratio.num = 0 THEN Whole(0)
    ELSE IF ratio.num < 0 /\ days \notin WholeExponentDays THEN NaN
    ELSE IF Underflows(ratio, days) THEN Whole(0)
    ELSE IF Overflows(ratio, days)
         THEN (IF ratio.num > 0 THEN Infinity ELSE NegInfinity)
    ELSE Real

\* calculateAnnualizedReturn of lib/calculations/utils
calculateAnnualizedReturn(startValue, endValue, days) ==
    IF LessEq(startValue, Whole(0)) \/ days <= 0 THEN Whole(0)
    ELSE IF LessEq(endValue, Whole(0)) THEN Whole(-100)
    ELSE LET ratio == Quotient(endValue, startValue)
             cagr == Difference(MathPow(ratio, days), Whole(1))
         IN  Product(cagr, Whole(100))

\* calculateAnnualizedReturn of hooks/use-metrics.ts
useMetricsAnnualizedReturn(costBasis, currentValue, days) ==
    IF LessEq(costBasis, Whole(0)) \/ days <= 0 THEN Whole(0)
    ELSE LET totalReturn == Quotient(currentValue, costBasis)
             cagr == Product(Difference(MathPow(totalReturn, days), Whole(1)), Whole(100))
         IN  IF IsFinite(cagr) THEN cagr ELSE Whole(0)

(***************************************************************************)
(* purchase-metrics.ts, etf-holding-metrics.ts, ytd-calculator.ts,         *)
(* portfolio-metrics.ts                                                    *)
(***************************************************************************)
calculatePurchaseMetrics(purchase, currentPrice, t) ==
    LET costBasis == FromNum(purchase.totalCost)
        currentValue == Product(FromNum(purchase.shares), currentPrice)
        holdingPeriodDays == getDaysBetween(DateTime(purchase.purchaseDate), t)
    IN  [etfSymbol |-> purchase.etfSymbol,
         shares |-> FromNum(purchase.shares),
         currentValue |-> currentValue,
         purchaseId |-> purchase.id,
         costBasis |-> costBasis,
         gainLoss |-> calculateGainLoss(costBasis, currentValue),
         gainLossPercent |-> calculateGainLossPercent(costBasis, currentValue),
         holdingPeriodDays |-> holdingPeriodDays,
         annualizedReturn |->
             calculateAnnualizedReturn(costBasis, currentValue, holdingPeriodDays)]

\* calculateETFHoldingMetrics of a symbol's purchases, of which there is one
\* at least
calculateETFHoldingMetrics(purchases, etfName, currentPrice, totalPortfolioValue, t) ==
    LET totalShares == sumShares(purchases)
        totalCostBasis == sumTotalCost(purchases)
        currentValue == Product(totalShares, currentPrice)
    IN  [currentPrice |-> currentPrice,
         etfSymbol |-> purchases[1].etfSymbol,
         purchases |-> [i \in 1..Len(purchases) |->
                           calculatePurchaseMetrics(purchases[i], currentPrice, t)],
         currentValue |-> currentValue,
         totalGainLoss |-> calculateGainLoss(totalCostBasis, currentValue),
         totalGainLossPercent |-> calculateGainLossPercent(totalCostBasis, currentValue),
         etfName |-> etfName,
         totalShares |-> totalShares,
         averageCostPerShare |-> calculateWeightedAverageCost(purchases),
         totalCostBasis |-> totalCostBasis,
         weightInPortfolio |-> calculatePortfolioWeight(currentValue, totalPortfolioValue)]

RECURSIVE symbolsOf(_)
\* the keys of the Map purchasesBySymbol in the order a for-of visits them: the
\* symbols of the purchases in the order of their first occurrence
symbolsOf(purchases) ==
    IF purchases = <<>> THEN <<>>
    ELSE LET before == symbolsOf(SubSeq(purchases, 1, Len(purchases) - 1))
             symbol == purchases[Len(purchases)].etfSymbol
         IN  IF \E i \in 1..Len(before) : before[i] = symbol THEN before
             ELSE Append(before, symbol)

\* grouping loop that stores [purchase] in place of the list: the last purchase
\* of the symbol remains
purchasesBySymbolOverwriting(purchases, symbol) ==
    LET all == SelectSeq(purchases, LAMBDA p : p.etfSymbol = symbol)
    IN  IF all = <<>> THEN <<>> ELSE <<all[Len(all)]>>

\* purchasesBySymbol.get(symbol) after the grouping loop, which appends each
\* purchase to the list of its symbol
purchasesBySymbol(purchases, symbol) ==
    SelectSeq(purchases, LAMBDA p : p.etfSymbol = symbol)

\* priceData.get(symbol) is an object
hasPrice(priceData, symbol) == symbol \in DOMAIN priceData

\* price.ytdChange !== 0 ? currentPrice / (1 + price.ytdChange / 100) : currentPrice
yearStartPriceOf(price) ==
    IF price.ytdChange # 0
    THEN Quotient(Whole(price.currentPrice),
                  Sum(Whole(1), Quotient(Whole(price.ytdChange), Whole(100))))
    ELSE Whole(price.currentPrice)

\* purchaseTime < yearStartTime
heldBeforeThisYear(purchase, t, tz) == DateTime(purchase.purchaseDate) < getYearStart(t, tz)

\* a loop that counts the purchases of a symbol without a price at the price 0
ytdContributionCountingUnquoted(purchase, priceData, t, tz) ==
    IF ~hasPrice(priceData, purchase.etfSymbol)
    THEN IF heldBeforeThisYear(purchase, t, tz)
         THEN [ytdGainLoss |-> Whole(0), valueAtYearStart |-> Whole(0),
               newInvestmentsThisYear |-> Whole(0)]
         ELSE [ytdGainLoss |-> Neg(FromNum(purchase.totalCost)),
               valueAtYearStart |-> Whole(0),
               newInvestmentsThisYear |-> FromNum(purchase.totalCost)]
    ELSE LET price == priceData[purchase.etfSymbol]
             currentValue == Product(FromNum(purchase.shares), Whole(price.currentPrice))
             valueAtStart == Product(FromNum(purchase.shares), yearStartPriceOf(price))
         IN  IF heldBeforeThisYear(purchase, t, tz)
             THEN [ytdGainLoss |-> Difference(currentValue, valueAtStart),
                   valueAtYearStart |-> valueAtStart,
                   newInvestmentsThisYear |-> Whole(0)]
             ELSE [ytdGainLoss |-> Difference(currentValue, FromNum(purchase.totalCost)),
                   valueAtYearStart |-> Whole(0),
                   newInvestmentsThisYear |-> FromNum(purchase.totalCost)]

\* what one purchase adds to ytdGainLoss, valueAtYearStart and
\* newInvestmentsThisYear; the loop skips the symbols without a price
ytdContribution(purchase, priceData, t, tz) ==
    IF ~hasPrice(priceData, purchase.etfSymbol)
    THEN [ytdGainLoss |-> Whole(0), valueAtYearStart |-> Whole(0),
          newInvestmentsThisYear |-> Whole(0)]
    ELSE LET price == priceData[purchase.etfSymbol]
             currentValue == Product(FromNum(purchase.shares), Whole(price.currentPrice))
             valueAtStart == Product(FromNum(purchase.shares), yearStartPriceOf(price))
         IN  IF heldBeforeThisYear(purchase, t, tz)
             THEN [ytdGainLoss |-> Difference(currentValue, valueAtStart),
                   valueAtYearStart |-> valueAtStart,
                   newInvestmentsThisYear |-> Whole(0)]
             ELSE [ytdGainLoss |-> Difference(currentValue, FromNum(purchase.totalCost)),
                   valueAtYearStart |-> Whole(0),
                   newInvestmentsThisYear |-> FromNum(purchase.totalCost)]

RECURSIVE inGroupOrder(_, _)
\* the purchases in the order the loops over purchasesBySymbol visit them
inGroupOrder(purchases, symbols) ==
    IF symbols = <<>> THEN <<>>
    ELSE purchasesBySymbol(purchases, Head(symbols))
         \o inGroupOrder(purchases, Tail(symbols))

\* the three accumulators of calculateYTDPerformance after its loops
ytdTotals(purchases, priceData, t, tz) ==
    LET visited == inGroupOrder(purchases, symbolsOf(purchases))
        each == [i \in 1..Len(visited) |-> ytdContribution(visited[i], priceData, t, tz)]
    IN  [ytdGainLoss |-> SumSeq([i \in 1..Len(each) |-> each[i].ytdGainLoss]),
         valueAtYearStart |-> SumSeq([i \in 1..Len(each) |-> each[i].valueAtYearStart]),
         newInvestmentsThisYear |->
             SumSeq([i \in 1..Len(each) |-> each[i].newInvestmentsThisYear])]

calculateYTDPerformance(purchases, priceData, t, tz) ==
    LET totals == ytdTotals(purchases, priceData, t, tz)
        base == Sum(totals.valueAtYearStart, totals.newInvestmentsThisYear)
    IN  [ytdGainLoss |-> totals.ytdGainLoss,
         ytdGainLossPercent |->
             IF Less(Whole(0), base)
             THEN Product(Quotient(totals.ytdGainLoss, base), Whole(100))
             ELSE Whole(0)]

RECURSIVE insertHolding(_, _)
\* puts h behind the holdings whose currentValue is not less than its own
insertHolding(sorted, h) ==
    IF sorted = <<>> THEN <<h>>
    ELSE IF Less(Head(sorted).currentValue, h.currentValue) THEN <<h>> \o sorted
    ELSE <<Head(sorted)>> \o insertHolding(Tail(sorted), h)

\* the holdings left in the order in which they were pushed
holdingsAsPushed(holdings) == holdings

RECURSIVE sortHoldings(_)
\* holdings.sort((a, b) => b.currentValue - a.currentValue): Array.prototype.sort
\* is stable
sortHoldings(holdings) ==
    IF holdings = <<>> THEN <<>>
    ELSE insertHolding(sortHoldings(SubSeq(holdings, 1, Len(holdings) - 1)),
                       holdings[Len(holdings)])

\* the symbols among symbols for which priceData has a price
RECURSIVE pricedSymbols(_, _)
pricedSymbols(symbols, priceData) ==
    IF symbols = <<>> THEN <<>>
    ELSE IF hasPrice(priceData, Head(symbols))
         THEN <<Head(symbols)>> \o pricedSymbols(Tail(symbols), priceData)
         ELSE pricedSymbols(Tail(symbols), priceData)

\* calculatePortfolioMetrics behind its test for an empty portfolio: grouping,
\* totals, holdings and the year-to-date figures
groupedPortfolioMetrics(pf, priceData, t, tz) ==
    LET symbols == pricedSymbols(symbolsOf(pf.purchases), priceData)
        totalCurrentValue ==
            SumSeq([i \in 1..Len(symbols) |->
                       Product(sumShares(purchasesBySymbol(pf.purchases, symbols[i])),
                               Whole(priceData[symbols[i]].currentPrice))])
        holdings ==
            [i \in 1..Len(symbols) |->
                calculateETFHoldingMetrics(purchasesBySymbol(pf.purchases, symbols[i]),
                                           symbols[i],
                                           Whole(priceData[symbols[i]].currentPrice),
                                           totalCurrentValue, t)]
        totalInvested == sumTotalCost(pf.purchases)
        ytd == calculateYTDPerformance(pf.purchases, priceData, t, tz)
    IN  [lastUpdated |-> t,
         totalInvested |-> totalInvested,
         currentValue |-> totalCurrentValue,
         totalGainLoss |-> calculateGainLoss(totalInvested, totalCurrentValue),
         totalGainLossPercent |->
             calculateGainLossPercent(totalInvested, totalCurrentValue),
         ytdGainLoss |-> ytd.ytdGainLoss,
         ytdGainLossPercent |-> ytd.ytdGainLossPercent,
         holdings |-> sortHoldings(holdings)]

\* a calculation without the case of the empty portfolio, whose percentage is
\* the plain quotient
calculatePortfolioMetricsWithoutEmptyCase(pf, priceData, t, tz) ==
    LET metrics == groupedPortfolioMetrics(pf, priceData, t, tz)
    IN  [metrics EXCEPT !.totalGainLossPercent =
             Product(Quotient(metrics.totalGainLoss, metrics.totalInvested), Whole(100))]

calculatePortfolioMetrics(pf, priceData, t, tz) ==
    IF Len(pf.purchases) = 0
    THEN [lastUpdated |-> t, totalInvested |-> Whole(0), currentValue |-> Whole(0),
          totalGainLoss |-> Whole(0), totalGainLossPercent |-> Whole(0),
          ytdGainLoss |-> Whole(0), ytdGainLossPercent |-> Whole(0), holdings |-> <<>>]
    ELSE groupedPortfolioMetrics(pf, priceData, t, tz)

(***************************************************************************)
(* The useMetrics hook (hooks/use-metrics.ts), which the dashboard renders *)
(***************************************************************************)
\* calculatePurchaseMetrics of the hook
useMetricsPurchaseMetrics(purchase, currentPrice, t) ==
    LET costBasis == FromNum(purchase.totalCost)
        currentValue == Product(FromNum(purchase.shares), currentPrice)
        gainLoss == Difference(currentValue, costBasis)
        holdingPeriodDays == getDaysBetween(DateTime(purchase.purchaseDate), t)
    IN  [etfSymbol |-> purchase.etfSymbol,
         shares |-> FromNum(purchase.shares),
         currentValue |-> currentValue,
         purchaseId |-> purchase.id,
         costBasis |-> costBasis,
         gainLoss |-> gainLoss,
         gainLossPercent |->
             IF Less(Whole(0), costBasis)
             THEN Product(Quotient(gainLoss, costBasis), Whole(100)) ELSE Whole(0),
         holdingPeriodDays |-> holdingPeriodDays,
         annualizedReturn |->
             useMetricsAnnualizedReturn(costBasis, currentValue, holdingPeriodDays)]

\* calculateETFHoldingMetrics of the hook
useMetricsHoldingMetrics(etfSymbol, etfName, purchases, currentPrice, totalPortfolioValue, t) ==
    LET totalShares == sumShares(purchases)
        totalCostBasis == sumTotalCost(purchases)
        currentValue == Product(totalShares, currentPrice)
        totalGainLoss == Difference(currentValue, totalCostBasis)
    IN  [currentPrice |-> currentPrice,
         etfSymbol |-> etfSymbol,
         purchases |-> [i \in 1..Len(purchases) |->
                           useMetricsPurchaseMetrics(purchases[i], currentPrice, t)],
         currentValue |-> currentValue,
         totalGainLoss |-> totalGainLoss,
         totalGainLossPercent |->
             IF Less(Whole(0), totalCostBasis)
             THEN Product(Quotient(totalGainLoss, totalCostBasis), Whole(100))
             ELSE Whole(0),
         etfName |-> etfName,
         totalShares |-> totalShares,
         averageCostPerShare |->
             IF Less(Whole(0), totalShares) THEN Quotient(totalCostBasis, totalShares)
             ELSE Whole(0),
         totalCostBasis |-> totalCostBasis,
         weightInPortfolio |->
             IF Less(Whole(0), totalPortfolioValue)
             THEN Product(Quotient(currentValue, totalPortfolioValue), Whole(100))
             ELSE Whole(0)]

\* the purchases as the hook's grouping loop pushes them: etfSymbol is
\* purchase.etfSymbol.toUpperCase().trim()
normalizedPurchases(purchases) ==
    [i \in 1..Len(purchases) |->
        [purchases[i] EXCEPT !.etfSymbol = Normalize(purchases[i].etfSymbol)]]

\* prices.get(symbol)?.currentPrice || 0
currentPriceOrZero(priceData, symbol) ==
    IF symbol \in DOMAIN priceData THEN Whole(priceData[symbol].currentPrice) ELSE Whole(0)

\* what the group of a symbol adds to ytdStartValue
estimatedStartValue(priceData, symbol, purchases) ==
    IF symbol \notin DOMAIN priceData THEN Whole(0)
    ELSE IF priceData[symbol].currentPrice <= 0 THEN Whole(0)
    ELSE LET quote == priceData[symbol]
             divisor == Sum(Whole(1), Quotient(Whole(quote.ytdChange), Whole(100)))
             estimatedStartPrice ==
                 IF Less(Whole(0), divisor) /\ IsFinite(divisor)
                 THEN Quotient(Whole(quote.currentPrice), divisor)
                 ELSE Whole(quote.currentPrice)
         IN  IF IsFinite(estimatedStartPrice)
             THEN Product(sumShares(purchases), estimatedStartPrice)
             ELSE Whole(0)

\* the value the hook returns for a portfolio with purchases
useMetrics(pf, priceData, t) ==
    LET purchases == normalizedPurchases(pf.purchases)
        symbols == symbolsOf(purchases)
        group(symbol) == purchasesBySymbol(purchases, symbol)
        totalCurrentValue ==
            SumSeq([i \in 1..Len(symbols) |->
                       Product(sumShares(group(symbols[i])),
                               currentPriceOrZero(priceData, symbols[i]))])
        totalInvested ==
            SumSeq([i \in 1..Len(symbols) |-> sumTotalCost(group(symbols[i]))])
        holdings ==
            [i \in 1..Len(symbols) |->
                useMetricsHoldingMetrics(symbols[i], symbols[i], group(symbols[i]),
                                         currentPriceOrZero(priceData, symbols[i]),
                                         totalCurrentValue, t)]
        totalGainLoss == Difference(totalCurrentValue, totalInvested)
        ytdStartValue ==
            SumSeq([i \in 1..Len(symbols) |->
                       estimatedStartValue(priceData, symbols[i], group(symbols[i]))])
        ytdGainLoss == Difference(totalCurrentValue, ytdStartValue)
    IN  [lastUpdated |-> t,
         totalInvested |-> totalInvested,
         currentValue |-> totalCurrentValue,
         totalGainLoss |-> totalGainLoss,
         totalGainLossPercent |->
             IF Less(Whole(0), totalInvested)
             THEN Product(Quotient(totalGainLoss, totalInvested), Whole(100))
             ELSE Whole(0),
         ytdGainLoss |-> ytdGainLoss,
         ytdGainLossPercent |->
             IF Less(Whole(0), ytdStartValue) /\ IsFinite(ytdStartValue)
             THEN Product(Quotient(ytdGainLoss, ytdStartValue), Whole(100))
             ELSE Whole(0),
         holdings |-> sortHoldings(holdings)]

(***************************************************************************)
(* The metrics engine's calculations as steps                              *)
(***************************************************************************)
MaxMetricPurchases == 2

MetricPurchase(n, symbol, date, shares, price, totalCost) ==
    [DocPurchase(<<"doc", n>>, symbol, Num(shares), Num(price), Num(0), Num(totalCost))
        EXCEPT !.purchaseDate = date, !.createdAt = 1, !.updatedAt = 1]

\* the purchases the engine is given: of A, half a year ago and on the last
\* day of 2025; of B, half a year ago and on 1 January 2026; of C, which has no
\* quote; of A again, spelt as an imported document may spell it
MetricPurchases ==
    { MetricPurchase(1, <<"A">>, "2025-06-01", 10, 90, 900),
      MetricPurchase(2, <<"B">>, "2026-01-01", 5, 100, 500),
      MetricPurchase(3, <<"A">>, "2025-12-31", 1, 10, 10),
      MetricPurchase(4, <<"C">>, "2025-06-01", 2, 50, 100),
      MetricPurchase(5, <<"B">>, "2025-06-01", 10, 100, 1000),
      MetricPurchase(6, <<"a", " ">>, "2025-06-01", 3, 100, 300) }

\* lists of distinct purchases
MetricPurchaseLists ==
    { ps \in UNION { [1..n -> MetricPurchases] : n \in 0..MaxMetricPurchases } :
         \A i, j \in 1..Len(ps) : ps[i] = ps[j] => i = j }

\* the quotes of A and of B: at most one of each, a quote of an ETF that lost
\* all its value among them
MetricPriceMaps ==
    { [symbol \in key |-> Quote(symbol, v[symbol])] :
         key \in SUBSET { <<"A">>, <<"B">> },
         v \in [{ <<"A">>, <<"B">> } ->
                   { [currentPrice |-> 105, previousClose |-> 100, ytdChange |-> 5],
                     [currentPrice |-> 120, previousClose |-> 120, ytdChange |-> 0],
                     [currentPrice |-> 0, previousClose |-> 1, ytdChange |-> -100] }] }

\* 1 January 2026, 10:00 Eastern, and 31 December 2025, 23:00 Eastern, on machines
\* in New York, London, Tokyo and Los Angeles; and 1 January 2026, 05:00 in
\* Tokyo, which is 31 December, 15:00 Eastern
MetricClocks ==
    { [start |-> NewYear + h, tz |-> tz] :
         h \in { 10 * 60, -60 }, tz \in { 0, 5 * 60, 14 * 60, -(3 * 60) } }
    \cup { [start |-> NewYear - 9 * 60, tz |-> 14 * 60] }

MetricsFrame ==
    /\ UNCHANGED envVars
    /\ UNCHANGED cacheVars
    /\ UNCHANGED svcVars
    /\ UNCHANGED hookVars
    /\ UNCHANGED priceMap
    /\ UNCHANGED providerVars

CalculatePortfolioMetrics ==
    /\ metricsRet' = [op |-> "calculatePortfolioMetrics",
                      value |-> calculatePortfolioMetrics(portfolio, priceMap, now, tzOffset)]
    /\ MetricsFrame

CalculateYTDPerformance ==
    /\ metricsRet' = [op |-> "calculateYTDPerformance",
                      value |-> calculateYTDPerformance(portfolio.purchases, priceMap,
                                                        now, tzOffset)]
    /\ MetricsFrame

\* The dashboard renders: useMetrics(portfolio, prices) is evaluated; it returns
\* null when the portfolio has no purchases.
UseMetrics ==
    /\ metricsRet' = IF Len(portfolio.purchases) = 0
                      THEN [op |-> "useMetrics", value |-> [present |-> FALSE]]
                      ELSE [op |-> "useMetrics",
                            value |-> useMetrics(portfolio, priceMap, now)]
    /\ MetricsFrame

\* The dashboard holds a portfolio and a Map of quotes.
InitMetrics ==
    /\ InitStorage
    /\ \E c \in MetricClocks : startTime = c.start /\ tzOffset = c.tz
    /\ now = startTime
    /\ cacheRet = NoCall
    /\ \E ps \in MetricPurchaseLists :
          portfolio = [initializePortfolio(0, now) EXCEPT !.purchases = ps]
    /\ nextId = 1
    /\ svcRet = NoCall
    /\ InitHook
    /\ priceMap \in MetricPriceMaps
    /\ metricsRet = NoCall
    /\ InitProvider

NextMetrics ==
    \/ CalculatePortfolioMetrics
    \/ CalculateYTDPerformance
    \/ UseMetrics

SpecMetrics == InitMetrics /\ [][NextMetrics]_vars

(***************************************************************************)
(* Claims about the metrics engine, checked under SpecMetrics              *)
(***************************************************************************)
RECURSIVE SumInts(_)
SumInts(xs) == IF xs = <<>> THEN 0 ELSE Head(xs) + SumInts(Tail(xs))

\* the symbols that have both a purchase and a quote
HeldAndQuoted ==
    { portfolio.purchases[i].etfSymbol : i \in 1..Len(portfolio.purchases) }
        \cap DOMAIN priceMap

\* C12: calculatePortfolioMetrics returns totalInvested equal to the sum of
\* totalCost over all purchases, those without a quote included, currentValue
\* equal to the sum of shares * currentPrice over the purchases whose symbol has
\* a quote, and holdings with exactly one entry per symbol that has both a
\* purchase and a quote.
C12_InvestedOverAllValueOverQuoted ==
    metricsRet.op = "calculatePortfolioMetrics" =>
        LET ps == portfolio.purchases
            m == metricsRet.value
        IN  /\ m.totalInvested = Whole(SumInts([i \in 1..Len(ps) |-> ps[i].totalCost.v]))
            /\ m.currentValue =
                   Whole(SumInts([i \in 1..Len(ps) |->
                                     IF ps[i].etfSymbol \in DOMAIN priceMap
                                     THEN ps[i].shares.v * priceMap[ps[i].etfSymbol].currentPrice
                                     ELSE 0]))
            /\ { m.holdings[i].etfSymbol : i \in 1..Len(m.holdings) } = HeldAndQuoted
            /\ Len(m.holdings) = Cardinality(HeldAndQuoted)

C12_Witness ==
    /\ metricsRet.op = "calculatePortfolioMetrics"
    /\ Len(portfolio.purchases) = 2
    /\ \E i \in 1..2 : portfolio.purchases[i].etfSymbol \notin DOMAIN priceMap
    /\ metricsRet.value.totalInvested = Whole(1000)
    /\ metricsRet.value.currentValue = Whole(1050)
    /\ Len(metricsRet.value.holdings) = 1

\* the place of the first purchase of a symbol among the portfolio's purchases
FirstPurchaseOf(symbol) ==
    CHOOSE i \in 1..Len(portfolio.purchases) :
        /\ portfolio.purchases[i].etfSymbol = symbol
        /\ \A j \in 1..(i - 1) : portfolio.purchases[j].etfSymbol # symbol

\* C13: the holdings calculatePortfolioMetrics returns are in descending order
\* of currentValue, and two holdings of equal currentValue are in the order in
\* which their symbols first occur among the portfolio's purchases.
C13_HoldingsDescendingAndStable ==
    metricsRet.op = "calculatePortfolioMetrics" =>
        LET holdings == metricsRet.value.holdings
        IN  \A i, j \in 1..Len(holdings) :
               i < j =>
                  /\ ~Less(holdings[i].currentValue, holdings[j].currentValue)
                  /\ holdings[i].currentValue = holdings[j].currentValue =>
                        FirstPurchaseOf(holdings[i].etfSymbol)
                            < FirstPurchaseOf(holdings[j].etfSymbol)

C13_Witness ==
    /\ metricsRet.op = "calculatePortfolioMetrics"
    /\ Len(metricsRet.value.holdings) = 2
    /\ metricsRet.value.holdings[1].currentValue = metricsRet.value.holdings[2].currentValue
    /\ metricsRet.value.holdings[1].currentValue = Whole(1050)
    /\ metricsRet.value.holdings[1].etfSymbol = <<"B">>
    /\ portfolio.purchases[1].etfSymbol = <<"B">>

\* the calendar date of a purchase is earlier than 1 January of the year the
\* machine's own calendar shows
DatedBeforeThisYear(purchase) ==
    NewYear + DayOfDate(purchase.purchaseDate) * MinutesPerDay
        < YearStartCivil(LocalCivil(now, tzOffset))

\* currentPrice / (1 + ytdChange / 100) of a quote whose ytdChange is not -100
StartPriceOfYear(price) == Fin(price.currentPrice * 100, 100 + price.ytdChange)

\* the purchases whose symbol has a quote
QuotedPurchases ==
    SelectSeq(portfolio.purchases, LAMBDA p : p.etfSymbol \in DOMAIN priceMap)

\* C14: calculateYTDPerformance returns ytdGainLoss equal to the sum, over the
\* purchases whose symbol has a quote, of shares * currentPrice - shares *
\* ytdStartPrice for the purchases made before this year and of shares *
\* currentPrice - totalCost for the purchases made this year, and
\* ytdGainLossPercent equal to ytdGainLoss / (valueAtYearStart +
\* newInvestmentsThisYear) * 100, or 0 when that base is not positive.
C14_YTDGainByYearOfPurchase ==
    (/\ metricsRet.op = "calculateYTDPerformance"
     /\ \A symbol \in DOMAIN priceMap : priceMap[symbol].ytdChange # -100) =>
        LET ps == QuotedPurchases
            value(i) == Product(Whole(ps[i].shares.v),
                                Whole(priceMap[ps[i].etfSymbol].currentPrice))
            atStart(i) == Product(Whole(ps[i].shares.v),
                                  StartPriceOfYear(priceMap[ps[i].etfSymbol]))
            gain == SumSeq([i \in 1..Len(ps) |->
                               IF DatedBeforeThisYear(ps[i])
                               THEN Difference(value(i), atStart(i))
                               ELSE Difference(value(i), Whole(ps[i].totalCost.v))])
            base == SumSeq([i \in 1..Len(ps) |->
                               IF DatedBeforeThisYear(ps[i])
                               THEN atStart(i)
                               ELSE Whole(ps[i].totalCost.v)])
        IN  /\ metricsRet.value.ytdGainLoss = gain
            /\ metricsRet.value.ytdGainLossPercent =
                   IF Less(Whole(0), base)
                   THEN Product(Quotient(gain, base), Whole(100))
                   ELSE Whole(0)

\* C15: calculateYTDPerformance treats a purchase as held since before this year
\* exactly when its calendar date is earlier than 1 January of the current year
\* of the machine's own calendar, whatever the machine's time zone.
C15_YearOfPurchaseByCalendarDate ==
    metricsRet.op = "calculateYTDPerformance" =>
        \A i \in 1..Len(QuotedPurchases) :
            heldBeforeThisYear(QuotedPurchases[i], now, tzOffset)
                <=> DatedBeforeThisYear(QuotedPurchases[i])

\* C16: in calculateYTDPerformance the purchases of a symbol that has no quote
\* contribute nothing: the two values returned are those returned for the
\* purchases whose symbol has a quote alone.
C16_UnquotedPurchasesContributeNothing ==
    metricsRet.op = "calculateYTDPerformance" =>
        metricsRet.value = calculateYTDPerformance(QuotedPurchases, priceMap, now, tzOffset)

C16_Witness ==
    /\ metricsRet.op = "calculateYTDPerformance"
    /\ Len(portfolio.purchases) = 2
    /\ Len(QuotedPurchases) = 1
    /\ \E i \in 1..2 : /\ portfolio.purchases[i].etfSymbol \notin DOMAIN priceMap
                       /\ ~heldBeforeThisYear(portfolio.purchases[i], now, tzOffset)
    /\ metricsRet.value = [ytdGainLoss |-> Whole(150), ytdGainLossPercent |-> Fin(50, 3)]

(***************************************************************************)
(* The two implementations of the annualized return, called on their own   *)
(***************************************************************************)
\* cost bases, current values and holding periods in days
StartValues == { -5, 0, 100 }

EndValues == { -5, 0, 100, 110, 700 }

HoldingDays == { -1, 0, 1, 365, 730 }

CalculateAnnualizedReturn(startValue, endValue, days) ==
    /\ metricsRet' = [op |-> "calculateAnnualizedReturn",
                      value |-> calculateAnnualizedReturn(Whole(startValue),
                                                          Whole(endValue), days),
                      startValue |-> startValue, endValue |-> endValue, days |-> days]
    /\ MetricsFrame

UseMetricsAnnualizedReturn(costBasis, currentValue, days) ==
    /\ metricsRet' = [op |-> "useMetrics: calculateAnnualizedReturn",
                      value |-> useMetricsAnnualizedReturn(Whole(costBasis),
                                                           Whole(currentValue), days),
                      startValue |-> costBasis, endValue |-> currentValue, days |-> days]
    /\ MetricsFrame

InitReturns ==
    /\ InitStorage
    /\ startTime = NewYear + 10 * 60
    /\ now = startTime
    /\ tzOffset = 0
    /\ cacheRet = NoCall
    /\ InitSvcIdle
    /\ InitHook
    /\ InitMetricsIdle
    /\ InitProvider

NextReturns ==
    \/ \E startValue \in StartValues, endValue \in EndValues, days \in HoldingDays :
          CalculateAnnualizedReturn(startValue, endValue, days)
    \/ \E costBasis \in StartValues, currentValue \in EndValues, days \in HoldingDays :
          UseMetricsAnnualizedReturn(costBasis, currentValue, days)

SpecReturns == InitReturns /\ [][NextReturns]_vars

\* the last call was one of the annualized return, of either implementation
AnnualizedReturnCalled ==
    metricsRet.op \in { "calculateAnnualizedReturn", "useMetrics: calculateAnnualizedReturn" }

\* C17: the annualized return is 0 whenever startValue <= 0 or days <= 0, and
\* -100 whenever startValue > 0, days > 0 and endValue <= 0, in the
\* implementation of lib/calculations and in that of the useMetrics hook.
C17_AnnualizedReturnEdgeCases ==
    AnnualizedReturnCalled =>
        /\ (metricsRet.startValue <= 0 \/ metricsRet.days <= 0) =>
               metricsRet.value = Whole(0)
        /\ (metricsRet.startValue > 0 /\ metricsRet.days > 0 /\ metricsRet.endValue <= 0) =>
               metricsRet.value = Whole(-100)

\* C18: for finite inputs no calculation of the metrics engine yields a value
\* that is not finite: every division by a divisor that can be zero and every
\* annualized return that is not finite is resolved to 0 or -100.  Here: every
\* number calculatePortfolioMetrics returns is finite.
C18_EveryMetricFinite ==
    metricsRet.op = "calculatePortfolioMetrics" =>
        LET m == metricsRet.value
        IN  /\ IsFinite(m.totalInvested) /\ IsFinite(m.currentValue)
            /\ IsFinite(m.totalGainLoss) /\ IsFinite(m.totalGainLossPercent)
            /\ IsFinite(m.ytdGainLoss) /\ IsFinite(m.ytdGainLossPercent)
            /\ \A i \in 1..Len(m.holdings) :
                  LET h == m.holdings[i]
                  IN  /\ IsFinite(h.currentValue) /\ IsFinite(h.totalGainLoss)
                      /\ IsFinite(h.totalGainLossPercent) /\ IsFinite(h.averageCostPerShare)
                      /\ IsFinite(h.weightInPortfolio)
                      /\ \A j \in 1..Len(h.purchases) :
                            /\ IsFinite(h.purchases[j].gainLossPercent)
                            /\ IsFinite(h.purchases[j].annualizedReturn)

(***************************************************************************)
(* Claims about import and export, checked under SpecPortfolio             *)
(***************************************************************************)
\* a document without an id or a name, whose purchases are not a list, or with a
\* purchase that has no id, no etfSymbol, or shares or a pricePerShare that is
\* not a positive number
InvalidDocument(data) ==
    \/ data.id[1] = "missing"
    \/ data.name = ""
    \/ ~data.purchasesIsArray
    \/ \E i \in 1..Len(data.purchases) :
          LET p == data.purchases[i]
          IN  \/ p.id[1] = "missing"
              \/ p.etfSymbol = <<>>
              \/ ~(p.shares.k = "num" /\ p.shares.v > 0)
              \/ ~(p.pricePerShare.k = "num" /\ p.pricePerShare.v > 0)

\* C19: importPortfolio rejects with an error every document whose id or name is
\* missing, whose purchases is not a list, or in which some purchase lacks an id
\* or an etfSymbol or has shares or a pricePerShare that is not a positive
\* number; the portfolio stored before is left as it was.
C19_ImportRejectsInvalidDocuments ==
    [][\A data \in ImportDocs :
          (ImportPortfolio(data) /\ InvalidDocument(data)) =>
              /\ svcRet' = [op |-> "importPortfolio", threw |-> TRUE]
              /\ portfolio' = portfolio
              /\ portfolioItem' = portfolioItem]_vars

C19_Witness ==
    /\ svcRet = [op |-> "importPortfolio", threw |-> TRUE]
    /\ storageAvailable
    /\ Len(portfolio.purchases) > 0
    /\ portfolioItem = Item(JsonPortfolio(portfolio))

\* C20: for every portfolio reached by adding, updating, deleting and importing,
\* importPortfolio(exportPortfolio(portfolio)) succeeds and yields a portfolio
\* with the same id, name, purchases (field for field) and cache entries; only
\* updatedAt differs.
C20_ExportImportRoundTrip ==
    [][(ReimportExported /\ storageAvailable) =>
          /\ svcRet' = [op |-> "importPortfolio", threw |-> FALSE]
          /\ portfolio'.id = portfolio.id
          /\ portfolio'.name = portfolio.name
          /\ portfolio'.purchases = portfolio.purchases
          /\ portfolio'.etfCache = portfolio.etfCache
          /\ portfolio'.createdAt = portfolio.createdAt]_vars

(***************************************************************************)
(* PortfolioProvider                                                       *)
(*                                                                         *)
(* The provider keeps the portfolio in React state.  setPortfolio(v)       *)
(* schedules a render; until the provider has rendered again, the          *)
(* callbacks addPurchase, updatePurchase and deletePurchase are those of   *)
(* the last render and work on the portfolio that render had               *)
(* (useCallback(..., [portfolio])).  null is NoPortfolio.                  *)
(***************************************************************************)
\* getPortfolio(): the stored portfolio, or null; the documents in storage are
\* those savePortfolio wrote, whose purchases are an array
getPortfolio(item) ==
    LET json == safeGetItem(item)
    IN  IF ~json.present THEN NoPortfolio
        ELSE IF json.doc.id[1] = "missing" THEN NoPortfolio
        ELSE json.doc

\* clearAllData(): the stored portfolio and the stored price cache afterwards
clearAllData(item, cacheItem) ==
    [data |-> safeRemoveItem(cacheItem), item |-> safeRemoveItem(item)]

SaveFailed == "Failed to save portfolio to localStorage"

NotFound == "Purchase not found"

ProviderFrame ==
    /\ UNCHANGED <<storageAvailable, startTime, now, tzOffset>>
    /\ UNCHANGED cacheVars
    /\ UNCHANGED <<portfolio, svcRet>>
    /\ UNCHANGED hookVars
    /\ UNCHANGED metricVars

\* a call of the provider ended with the catch block's setError(message)
ProviderFailed(message) ==
    /\ providerError' = message
    /\ UNCHANGED <<providerPortfolio, portfolioItem, addedIds>>

\* setError(null), then the storage call saved updatedPortfolio and
\* setPortfolio(updatedPortfolio) ran, unless the save threw; ids are the
\* purchases added through the provider that the caller has not removed since
ProviderSaved(updatedPortfolio, ids) ==
    LET saved == savePortfolio(portfolioItem, updatedPortfolio, now)
    IN  IF saved.threw THEN ProviderFailed(SaveFailed)
        ELSE /\ providerError' = NoProviderError
             /\ providerPortfolio' = updatedPortfolio
             /\ portfolioItem' = saved.item
             /\ addedIds' = ids

\* the mount effect: the stored portfolio is loaded, or a new one initialized
ProviderMounts ==
    LET storedPortfolio == getPortfolio(portfolioItem)
    IN  /\ ~providerMounted
        /\ storedPortfolio = NoPortfolio => nextId < MaxIds
        /\ providerMounted' = TRUE
        /\ IF storedPortfolio # NoPortfolio
           THEN /\ providerPortfolio' = storedPortfolio
                /\ UNCHANGED <<providerError, portfolioItem, addedIds, nextId>>
           ELSE /\ nextId' = nextId + 1
                /\ ProviderSaved(initializePortfolio(nextId, now), addedIds)
        /\ providerIsLoading' = FALSE
        /\ UNCHANGED <<renderedPortfolio, priceCacheItem>>
        /\ ProviderFrame

\* The provider renders with the portfolio last set: its callbacks now hold it.
ProviderRenders ==
    /\ renderedPortfolio # providerPortfolio
    /\ renderedPortfolio' = providerPortfolio
    /\ UNCHANGED <<providerMounted, providerPortfolio, providerIsLoading, providerError,
                   addedIds, portfolioItem, priceCacheItem, nextId>>
    /\ ProviderFrame

\* what add, update and delete of the provider leave alone
ProviderMutationFrame ==
    /\ providerMounted
    /\ UNCHANGED <<providerMounted, renderedPortfolio, providerIsLoading, priceCacheItem>>
    /\ ProviderFrame

ProviderAddPurchase(data) ==
    /\ Len(renderedPortfolio.purchases) < MaxPurchases
    /\ nextId < MaxIds
    /\ IF renderedPortfolio = NoPortfolio
       THEN /\ ProviderFailed("No portfolio available")
            /\ UNCHANGED nextId
       ELSE /\ nextId' = nextId + 1
            /\ ProviderSaved(addPurchase(renderedPortfolio, generateId(nextId), data, now),
                             addedIds \cup {generateId(nextId)})
    /\ ProviderMutationFrame

ProviderUpdatePurchase(id, data) ==
    LET purchaseIndex == findIndex(renderedPortfolio.purchases, id)
    IN  /\ IF renderedPortfolio = NoPortfolio
           THEN ProviderFailed("No portfolio available")
           ELSE IF purchaseIndex = 0 THEN ProviderFailed(NotFound)
           ELSE ProviderSaved(updatePurchase(renderedPortfolio, purchaseIndex, data, now),
                              addedIds)
        /\ UNCHANGED nextId
        /\ ProviderMutationFrame

ProviderDeletePurchase(id) ==
    LET purchaseIndex == findIndex(renderedPortfolio.purchases, id)
    IN  /\ IF renderedPortfolio = NoPortfolio
           THEN ProviderFailed("No portfolio available")
           ELSE IF purchaseIndex = 0 THEN ProviderFailed(NotFound)
           ELSE ProviderSaved(deletePurchase(renderedPortfolio, id, now), addedIds \ {id})
        /\ UNCHANGED nextId
        /\ ProviderMutationFrame

ProviderImportPortfolio(data) ==
    /\ IF importProblem(data) # "ok" THEN ProviderFailed(importProblem(data))
       ELSE ProviderSaved(importedPortfolio(data, now), {})
    /\ UNCHANGED nextId
    /\ ProviderMutationFrame

\* refreshPortfolio(): the stored portfolio, if there is one, becomes the state
ProviderRefreshPortfolio ==
    LET storedPortfolio == getPortfolio(portfolioItem)
    IN  /\ providerMounted
        /\ providerError' = NoProviderError
        /\ providerPortfolio' = IF storedPortfolio # NoPortfolio THEN storedPortfolio
                                ELSE providerPortfolio
        /\ providerIsLoading' = FALSE
        /\ UNCHANGED <<providerMounted, renderedPortfolio, addedIds, portfolioItem,
                       priceCacheItem, nextId>>
        /\ ProviderFrame

\* clearPortfolio(): clearAllData(), then initializePortfolio()
ProviderClearPortfolio ==
    LET cleared == clearAllData(portfolioItem, priceCacheItem)
        newPortfolio == initializePortfolio(nextId, now)
        saved == savePortfolio(cleared.item, newPortfolio, now)
    IN  /\ providerMounted
        /\ nextId < MaxIds
        /\ nextId' = nextId + 1
        /\ priceCacheItem' = cleared.data
        /\ IF saved.threw
           THEN /\ providerError' = SaveFailed
                /\ portfolioItem' = cleared.item
                /\ UNCHANGED <<providerPortfolio, addedIds>>
           ELSE /\ providerError' = NoProviderError
                /\ providerPortfolio' = newPortfolio
                /\ portfolioItem' = saved.item
                /\ addedIds' = {}
        /\ UNCHANGED <<providerMounted, renderedPortfolio, providerIsLoading>>
        /\ ProviderFrame

\* The page is loaded again: the provider is constructed anew over the storage
\* the last page left.
ProviderReloads ==
    /\ providerMounted
    /\ providerMounted' = FALSE
    /\ providerPortfolio' = NoPortfolio
    /\ renderedPortfolio' = NoPortfolio
    /\ providerIsLoading' = TRUE
    /\ providerError' = NoProviderError
    /\ UNCHANGED <<addedIds, portfolioItem, priceCacheItem, nextId>>
    /\ ProviderFrame

\* the ids the provider's callers name: those of the purchases rendered and one
\* that no purchase has
RenderedIds ==
    { renderedPortfolio.purchases[i].id : i \in 1..Len(renderedPortfolio.purchases) }
    \cup { <<"doc", 7>> }

\* What the provider's callers submit: the add form with the fees field left
\* empty, the edit form with every field filled in but the fees, a well-formed
\* document and one that is no JSON.
ProviderAddInputs == { data \in AddInputs : data.fees = "" }

ProviderUpdateInputs == { data \in UpdateInputs : data.fees = Some("") }

ProviderImportDocs ==
    { data \in ImportDocs : ~data.parses \/ data.purchases = <<DocWellFormed>> }

\* The provider is constructed in a browser profile with nothing stored.
InitProviderRun ==
    /\ storageAvailable \in BOOLEAN
    /\ priceCacheItem = NoItem
    /\ portfolioItem = NoItem
    /\ startTime = 2006
    /\ now = startTime
    /\ tzOffset = 0
    /\ cacheRet = NoCall
    /\ InitSvcIdle
    /\ InitHook
    /\ InitMetricsIdle
    /\ InitProvider

NextProvider ==
    \/ StorageSwitches
    \/ ProviderMounts
    \/ ProviderRenders
    \/ \E data \in ProviderAddInputs : ProviderAddPurchase(data)
    \/ \E id \in RenderedIds, data \in ProviderUpdateInputs :
          ProviderUpdatePurchase(id, data)
    \/ \E id \in RenderedIds : ProviderDeletePurchase(id)
    \/ \E data \in ProviderImportDocs : ProviderImportPortfolio(data)
    \/ ProviderRefreshPortfolio
    \/ ProviderClearPortfolio
    \/ ProviderReloads

SpecProvider == InitProviderRun /\ [][NextProvider]_vars

(***************************************************************************)
(* Claims about the provider (checked under SpecProvider)                  *)
(***************************************************************************)
\* the purchases of the stored portfolio document
StoredPurchases ==
    IF portfolioItem.present THEN portfolioItem.doc.purchases ELSE <<>>

\* C21: whenever the provider holds a portfolio, that portfolio and the stored
\* portfolio document hold the same purchases; a step that changes the
\* provider's portfolio through a mutation has written that portfolio to
\* storage, and a mutation that ends with an error leaves the provider's
\* portfolio as it was.
C21_ProviderAndStorageHoldSamePurchases ==
    [][ /\ providerPortfolio' # NoPortfolio =>
             /\ portfolioItem'.present
             /\ providerPortfolio'.purchases = portfolioItem'.doc.purchases
        /\ (providerMounted /\ providerPortfolio' # providerPortfolio
               /\ providerPortfolio' # NoPortfolio) =>
             /\ portfolioItem'.present
             /\ portfolioItem'.doc.id = providerPortfolio'.id
        /\ (providerMounted /\ providerError' # NoProviderError) =>
             providerPortfolio' = providerPortfolio ]_vars

(***************************************************************************)
(* Further claims about the metrics engine (checked under SpecMetrics)     *)
(***************************************************************************)
\* C22: for a portfolio without purchases calculatePortfolioMetrics returns
\* totalInvested, currentValue, totalGainLoss, totalGainLossPercent,
\* ytdGainLoss and ytdGainLossPercent equal to 0 and no holdings, whatever the
\* quotes are.
C22_EmptyPortfolioAllZero ==
    (metricsRet.op = "calculatePortfolioMetrics" /\ Len(portfolio.purchases) = 0) =>
        /\ metricsRet.value.totalInvested = Whole(0)
        /\ metricsRet.value.currentValue = Whole(0)
        /\ metricsRet.value.totalGainLoss = Whole(0)
        /\ metricsRet.value.totalGainLossPercent = Whole(0)
        /\ metricsRet.value.ytdGainLoss = Whole(0)
        /\ metricsRet.value.ytdGainLossPercent = Whole(0)
        /\ metricsRet.value.holdings = <<>>

\* C22 witness: the metrics of a portfolio without purchases have been
\* calculated with quotes of both A and B.
C22_Witness ==
    /\ metricsRet.op = "calculatePortfolioMetrics"
    /\ Len(portfolio.purchases) = 0
    /\ DOMAIN priceMap = { <<"A">>, <<"B">> }
    /\ metricsRet.value.holdings = <<>>

\* the purchases of pf whose symbol, normalized, is symbol
PurchasesOfNormalized(pf, symbol) ==
    SelectSeq(pf.purchases, LAMBDA p : Normalize(p.etfSymbol) = symbol)

\* C23: calculatePortfolioMetrics groups the purchases by normalized symbol:
\* for every normalized symbol that is held and has a quote there is one
\* holding, it holds all the purchases whose symbol normalizes to it, and it is
\* priced with the quote stored under the normalized symbol.
C23_GroupedByNormalizedSymbol ==
    metricsRet.op = "calculatePortfolioMetrics" =>
        \A symbol \in DOMAIN priceMap :
            LET held == PurchasesOfNormalized(portfolio, symbol)
                of == SelectSeq(metricsRet.value.holdings,
                                LAMBDA h : Normalize(h.etfSymbol) = symbol)
            IN  held # <<>> =>
                  /\ Len(of) = 1
                  /\ Len(of[1].purchases) = Len(held)
                  /\ of[1].totalShares = sumShares(held)
                  /\ of[1].currentPrice = Whole(priceMap[symbol].currentPrice)

\* the PurchaseMetrics of the last calculatePortfolioMetrics, over all holdings
PurchaseMetricsReturned ==
    UNION { { h.purchases[i] : i \in 1..Len(h.purchases) } :
              h \in { metricsRet.value.holdings[j] :
                         j \in 1..Len(metricsRet.value.holdings) } }

\* the purchase of the portfolio with the given id
PurchaseWithId(id) ==
    CHOOSE p \in { portfolio.purchases[i] : i \in 1..Len(portfolio.purchases) } : p.id = id

\* the calendar date of the instant t on a machine tz minutes ahead of Eastern
\* time, in days from 1 January 2026
LocalDayOf(t, tz) ==
    CHOOSE d \in -400..400 :
        /\ NewYear + d * MinutesPerDay <= LocalCivil(t, tz)
        /\ LocalCivil(t, tz) < NewYear + (d + 1) * MinutesPerDay

\* C24: calculatePurchaseMetrics reports as holdingPeriodDays the whole days
\* from the purchase date to now, rounded down; a purchase whose calendar date
\* is today has holdingPeriodDays = 0 and annualizedReturn = 0, at every time
\* of day and in every time zone.
C24_HoldingPeriodFloorsAndTodayIsZero ==
    metricsRet.op = "calculatePortfolioMetrics" =>
        \A m \in PurchaseMetricsReturned :
            LET p == PurchaseWithId(m.purchaseId)
                elapsed == now - DateTime(p.purchaseDate)
            IN  /\ m.holdingPeriodDays * MinutesPerDay <= elapsed
                /\ elapsed < (m.holdingPeriodDays + 1) * MinutesPerDay
                /\ DayOfDate(p.purchaseDate) = LocalDayOf(now, tzOffset) =>
                      /\ m.holdingPeriodDays = 0
                      /\ m.annualizedReturn = Whole(0)

(***************************************************************************)
(* Further claims about the portfolio service (checked under               *)
(* SpecPortfolio)                                                          *)
(***************************************************************************)
\* no purchase of the portfolio has the id
MatchesNoPurchase(id) ==
    \A i \in 1..Len(portfolio.purchases) : portfolio.purchases[i].id # id

\* C25: updatePurchase and deletePurchase called with an id that no purchase has
\* end with an error, write nothing to storage and leave the portfolio as it was.
C25_UnknownIdThrowsAndChangesNothing ==
    [][\A id \in KnownIds :
          MatchesNoPurchase(id) =>
             /\ \A data \in UpdateInputs :
                   UpdatePurchase(id, data) =>
                      /\ svcRet' = [op |-> "updatePurchase", threw |-> TRUE]
                      /\ portfolio' = portfolio
                      /\ portfolioItem' = portfolioItem
             /\ DeletePurchase(id) =>
                   /\ svcRet' = [op |-> "deletePurchase", threw |-> TRUE]
                   /\ portfolio' = portfolio
                   /\ portfolioItem' = portfolioItem]_vars

\* C25 witness: a call of updatePurchase has thrown although storage is
\* available and the portfolio has purchases: its id matched none of them.
C25_Witness ==
    /\ svcRet = [op |-> "updatePurchase", threw |-> TRUE]
    /\ storageAvailable
    /\ Len(portfolio.purchases) = 2
    /\ portfolioItem = Item(JsonPortfolio(portfolio))

(***************************************************************************)
(* Further claims about the provider (checked under SpecProvider)          *)
(***************************************************************************)
\* the ids of the purchases in a list
IdsOf(purchases) == { purchases[i].id : i \in 1..Len(purchases) }

\* C26: every purchase whose addPurchase call through the provider reported no
\* error, and which no later delete, import or reset removed, is in the
\* provider's portfolio and in the stored document once the calls have
\* completed, also when a call was issued before the provider had rendered
\* with the result of the call before it.
C26_NoAddedPurchaseIsLost ==
    providerPortfolio # NoPortfolio =>
        /\ addedIds \subseteq IdsOf(providerPortfolio.purchases)
        /\ addedIds \subseteq IdsOf(StoredPurchases)

(***************************************************************************)
(* The hook against the engine (checked under SpecMetrics)                 *)
(***************************************************************************)
\* every symbol held has a quote with a positive price
EveryHeldSymbolQuoted ==
    \A i \in 1..Len(portfolio.purchases) :
        /\ portfolio.purchases[i].etfSymbol \in DOMAIN priceMap
        /\ priceMap[portfolio.purchases[i].etfSymbol].currentPrice > 0

\* C27: for a portfolio and quotes in which every symbol held has a quote with a
\* positive price, useMetrics returns the totalInvested, currentValue,
\* totalGainLoss, holdings and ytdGainLoss that calculatePortfolioMetrics
\* returns.
C27_HookAgreesWithEngine ==
    (metricsRet.op = "useMetrics" /\ Len(portfolio.purchases) > 0
        /\ EveryHeldSymbolQuoted) =>
        LET engine == calculatePortfolioMetrics(portfolio, priceMap, now, tzOffset)
        IN  /\ metricsRet.value.totalInvested = engine.totalInvested
            /\ metricsRet.value.currentValue = engine.currentValue
            /\ metricsRet.value.totalGainLoss = engine.totalGainLoss
            /\ metricsRet.value.holdings = engine.holdings
            /\ metricsRet.value.ytdGainLoss = engine.ytdGainLoss

(***************************************************************************)
(* The frame of delete and update (checked under SpecPortfolio)            *)
(***************************************************************************)
\* the fields of the portfolio that a change of its purchases leaves alone
SamePortfolioFrame ==
    /\ portfolio'.id = portfolio.id
    /\ portfolio'.name = portfolio.name
    /\ portfolio'.etfCache = portfolio.etfCache
    /\ portfolio'.createdAt = portfolio.createdAt
    /\ portfolio'.version = portfolio.version

\* C30: deletePurchase with the id of a purchase removes exactly that purchase
\* and leaves the other purchases, their order, and the portfolio's id, name,
\* etfCache, createdAt and version as they were; updatePurchase leaves the
\* edited purchase its id, its createdAt and its place in the list, and the
\* other purchases as they were.
C30_DeleteAndUpdateFrame ==
    [][\A id \in KnownIds :
          ~MatchesNoPurchase(id) =>
             /\ (DeletePurchase(id) /\ ~svcRet'.threw) =>
                   /\ Len(portfolio'.purchases) = Len(portfolio.purchases) - 1
                   /\ portfolio'.purchases =
                         SelectSeq(portfolio.purchases, LAMBDA p : p.id # id)
                   /\ SamePortfolioFrame
             /\ \A data \in UpdateInputs :
                   (UpdatePurchase(id, data) /\ ~svcRet'.threw) =>
                      /\ Len(portfolio'.purchases) = Len(portfolio.purchases)
                      /\ \E i \in 1..Len(portfolio.purchases) :
                            /\ portfolio.purchases[i].id = id
                            /\ portfolio'.purchases[i].id = id
                            /\ portfolio'.purchases[i].createdAt
                                  = portfolio.purchases[i].createdAt
                            /\ \A j \in 1..Len(portfolio.purchases) :
                                  j # i => portfolio'.purchases[j] = portfolio.purchases[j]
                      /\ SamePortfolioFrame]_vars

(***************************************************************************)
(* usePrices in a component that stays mounted, its requests settling      *)
(***************************************************************************)
\* what a request settles with: a quote, or a failure
SettledResults == { Fetched([currentPrice |-> 105, previousClose |-> 100, ytdChange |-> 5]),
                    FetchFailed }

\* The steps of the hook while its component stays mounted.
NextPricesMounted ==
    \/ StorageSwitches
    \/ \E key \in SymbolKeys : Render(key)
    \/ Refresh
    \/ \E r \in rounds : \E results \in [r.key -> SettledResults] : RoundCompletes(r, results)

\* Every request settles, with a quote or with a failure: a round whose requests
\* are in flight resumes after its await.
RequestsSettle ==
    WF_vars(\E r \in rounds : \E results \in [r.key -> SettledResults] :
                RoundCompletes(r, results))

SpecPricesMounted == InitPrices /\ [][NextPricesMounted]_vars /\ RequestsSettle

\* the hook reports the symbols of the current render as loaded
Settled == ~isLoading /\ hasLoaded

\* C29: in a component that stays mounted and whose requests all settle, after
\* any symbol changes and refreshes the hook comes to rest with isLoading false
\* and hasLoaded true for the symbols of the current render, also when every
\* request failed and when rounds were superseded.
C29_EventuallyLoaded == <>[]Settled

\* C29: the hook is at rest on a list of symbols after a round in which every
\* request failed, an earlier round having been superseded.
C29_Witness ==
    /\ Settled
    /\ symbolsKey # {}
    /\ rounds = {}
    /\ currentFetchId >= 2
    /\ error # NoError
    /\ error.kind = "all"

(***************************************************************************)
(* The rounding of double arithmetic                                       *)
(*                                                                         *)
(* A double greater than 0 is m * 2^exp with 2^52 <= m < 2^53; bits holds  *)
(* the 53 binary digits of m, the first of them 1.  Zero has no digits.    *)
(* A number before its rounding is [bits, exp, more]: any count of digits, *)
(* more saying that digits other than 0 follow below 2^exp.  Every         *)
(* operation of double arithmetic returns the double nearest to the exact  *)
(* result, the one whose last digit is 0 when two are as near.             *)
(***************************************************************************)
MantissaBits == 53

\* digits that cover the zeros an integer quotient below 1 begins with
MaxLeadingZeros == 31

DoubleZero == [bits |-> <<>>, exp |-> 0]

Zeros(n) == [i \in 1..n |-> 0]

RECURSIVE BitsOfInt(_)
\* the binary digits of n >= 0, none for 0
BitsOfInt(n) == IF n = 0 THEN <<>> ELSE Append(BitsOfInt(n \div 2), n % 2)

\* digits without the zeros they begin with
StripZeros(bits) ==
    IF \A i \in 1..Len(bits) : bits[i] = 0 THEN <<>>
    ELSE SubSeq(bits,
                CHOOSE i \in 1..Len(bits) :
                    bits[i] = 1 /\ \A j \in 1..(i - 1) : bits[j] = 0,
                Len(bits))

RECURSIVE Increment(_)
\* the digits of m + 1
Increment(bits) ==
    IF bits = <<>> THEN <<1>>
    ELSE IF bits[Len(bits)] = 0 THEN [bits EXCEPT ![Len(bits)] = 1]
    ELSE Append(Increment(SubSeq(bits, 1, Len(bits) - 1)), 0)

RECURSIVE Decrement(_)
\* the digits of m - 1, m > 0, as many as m has
Decrement(bits) ==
    IF bits[Len(bits)] = 1 THEN [bits EXCEPT ![Len(bits)] = 0]
    ELSE Append(Decrement(SubSeq(bits, 1, Len(bits) - 1)), 1)

\* round to nearest, ties to even
roundToNearest(x) ==
    IF x.bits = <<>> THEN DoubleZero
    ELSE IF Len(x.bits) <= MantissaBits
    THEN [bits |-> x.bits \o Zeros(MantissaBits - Len(x.bits)),
          exp |-> x.exp - (MantissaBits - Len(x.bits))]
    ELSE LET kept == SubSeq(x.bits, 1, MantissaBits)
             dropped == SubSeq(x.bits, MantissaBits + 1, Len(x.bits))
             half == dropped[1] = 1
             rest == x.more \/ \E i \in 2..Len(dropped) : dropped[i] = 1
             m == IF half /\ (rest \/ kept[MantissaBits] = 1) THEN Increment(kept)
                  ELSE kept
             e == x.exp + Len(dropped)
         IN  IF Len(m) > MantissaBits
             THEN [bits |-> SubSeq(m, 1, MantissaBits), exp |-> e + 1]
             ELSE [bits |-> m, exp |-> e]

RECURSIVE fractionBits(_, _, _)
\* the first n binary digits of r / b after the point, 0 <= r < b, and the
\* remainder the long division carries on with; the digits are worked out
\* from the first to the last, half of them at a time
fractionBits(r, b, n) ==
    IF n = 0 THEN [bits |-> <<>>, carry |-> r]
    ELSE IF n = 1
    THEN LET bit == IF 2 * r >= b THEN 1 ELSE 0
         IN  [bits |-> <<bit>>, carry |-> 2 * r - bit * b]
    ELSE LET first == fractionBits(r, b, n \div 2)
             second == fractionBits(first.carry, b, n - n \div 2)
         IN  [bits |-> first.bits \o second.bits, carry |-> second.carry]

\* a / b of two whole numbers that are doubles, a >= 0 and b > 0
doubleQuotient(a, b) ==
    LET n == MaxLeadingZeros + MantissaBits + 2
        fraction == fractionBits(a % b, b, n)
    IN  roundToNearest([bits |-> StripZeros(BitsOfInt(a \div b) \o fraction.bits),
                        exp |-> -n, more |-> fraction.carry # 0])

\* digits in the opposite order
Reverse(bits) == [i \in 1..Len(bits) |-> bits[Len(bits) + 1 - i]]

RECURSIVE timesBits(_, _, _)
\* the last Len(bits) digits of m * n + carry and what is carried beyond them,
\* the digits of m and of the result written last digit first; they are worked
\* out half of them at a time
timesBits(bits, n, carry) ==
    IF bits = <<>> THEN [bits |-> <<>>, carry |-> carry]
    ELSE IF Len(bits) = 1
    THEN [bits |-> <<(bits[1] * n + carry) % 2>>, carry |-> (bits[1] * n + carry) \div 2]
    ELSE LET h == Len(bits) \div 2
             first == timesBits(SubSeq(bits, 1, h), n, carry)
             second == timesBits(SubSeq(bits, h + 1, Len(bits)), n, first.carry)
         IN  [bits |-> first.bits \o second.bits, carry |-> second.carry]

\* x * n of a double x >= 0 and a whole number n > 0
doubleTimes(x, n) ==
    LET product == timesBits(Reverse(x.bits), n, 0)
    IN  roundToNearest([bits |-> BitsOfInt(product.carry) \o Reverse(product.bits),
                        exp |-> x.exp, more |-> FALSE])

RECURSIVE plusBits(_, _, _)
\* the last Len(a) digits of m1 + m2 + carry, m1 and m2 written with as many
\* digits, and what is carried beyond them, all digits last digit first
plusBits(a, b, carry) ==
    IF a = <<>> THEN [bits |-> <<>>, carry |-> carry]
    ELSE IF Len(a) = 1
    THEN [bits |-> <<(a[1] + b[1] + carry) % 2>>, carry |-> (a[1] + b[1] + carry) \div 2]
    ELSE LET h == Len(a) \div 2
             first == plusBits(SubSeq(a, 1, h), SubSeq(b, 1, h), carry)
             second == plusBits(SubSeq(a, h + 1, Len(a)), SubSeq(b, h + 1, Len(b)),
                                first.carry)
         IN  [bits |-> first.bits \o second.bits, carry |-> second.carry]

\* x + y of doubles x >= 0 and y >= 0
doublePlus(x, y) ==
    IF x.bits = <<>> THEN y
    ELSE IF y.bits = <<>> THEN x
    ELSE LET e == IF x.exp < y.exp THEN x.exp ELSE y.exp
             xb == x.bits \o Zeros(x.exp - e)
             yb == y.bits \o Zeros(y.exp - e)
             n == IF Len(xb) < Len(yb) THEN Len(yb) ELSE Len(xb)
             total == plusBits(Reverse(Zeros(n - Len(xb)) \o xb),
                               Reverse(Zeros(n - Len(yb)) \o yb), 0)
         IN  roundToNearest([bits |-> BitsOfInt(total.carry) \o Reverse(total.bits),
                             exp |-> e, more |-> FALSE])

\* the double of a whole number n >= 0
doubleOfInt(n) == roundToNearest([bits |-> BitsOfInt(n), exp |-> 0, more |-> FALSE])

\* the double next above a double x > 0
nextUp(x) ==
    LET m == Increment(x.bits)
    IN  IF Len(m) > MantissaBits
        THEN [bits |-> SubSeq(m, 1, MantissaBits), exp |-> x.exp + 1]
        ELSE [bits |-> m, exp |-> x.exp]

\* the double next below a double x > 0 (above the smallest normal double)
nextDown(x) ==
    LET m == Decrement(x.bits)
    IN  IF m[1] = 0
        THEN [bits |-> Tail(m) \o <<1>>, exp |-> x.exp - 1]
        ELSE [bits |-> m, exp |-> x.exp]

RECURSIVE stepsFrom(_, _, _)
\* the doubles at most n steps above (up) or below x
stepsFrom(x, n, up) ==
    IF n = 0 THEN {x}
    ELSE {x} \cup stepsFrom(IF up THEN nextUp(x) ELSE nextDown(x), n - 1, up)

\* x is at most n doubles away from y, both greater than 0
withinSteps(x, y, n) == x \in stepsFrom(y, n, TRUE) \cup stepsFrom(y, n, FALSE)

(***************************************************************************)
(* The weights of the holdings as the engine holds them                    *)
(***************************************************************************)
\* The double the engine holds as a weight.  The model's weightInPortfolio is
\* the exact value w of 100 * holdingValue / totalValue; the engine computes
\* (holdingValue / totalValue) * 100 in double arithmetic, the quotient of two
\* doubles whose exact ratio is w / 100, rounded, times 100, rounded.
weightHeld(w) == doubleTimes(doubleQuotient(w.num, 100 * w.den), 100)

RECURSIVE doubleSum(_)
\* xs.reduce((sum, x) => sum + x, 0) in double arithmetic
doubleSum(xs) ==
    IF xs = <<>> THEN DoubleZero
    ELSE doublePlus(doubleSum(SubSeq(xs, 1, Len(xs) - 1)), xs[Len(xs)])

\* the weights of the holdings of a result are numbers that are not negative
WeightsAreNumbers(metrics) ==
    \A i \in 1..Len(metrics.holdings) :
        /\ metrics.holdings[i].weightInPortfolio.k = "fin"
        /\ metrics.holdings[i].weightInPortfolio.num >= 0

\* the sum of the weights of the holdings of a result, as the engine holds them
SumOfWeightsHeld(metrics) ==
    doubleSum([i \in 1..Len(metrics.holdings) |->
                  weightHeld(metrics.holdings[i].weightInPortfolio)])

\* the sum of currentValue over the holdings of a result
SumOfHoldingValues(metrics) ==
    SumSeq([i \in 1..Len(metrics.holdings) |-> metrics.holdings[i].currentValue])

\* C28 as stated: in the result of calculatePortfolioMetrics the currentValue of
\* the holdings sum to the portfolio's currentValue, and when that value is not
\* 0 the weightInPortfolio of the holdings sum to 100.
C28_ValuesAndWeightsAddUp ==
    metricsRet.op = "calculatePortfolioMetrics" =>
        LET metrics == metricsRet.value
        IN  /\ SumOfHoldingValues(metrics) = metrics.currentValue
            /\ ~IsZero(metrics.currentValue) =>
                  /\ WeightsAreNumbers(metrics)
                  /\ SumOfWeightsHeld(metrics) = doubleOfInt(100)

\* C28 amended: in the result of calculatePortfolioMetrics the currentValue of
\* the holdings sum to the portfolio's currentValue, and when that value is not
\* 0 the weightInPortfolio of the n holdings sum to 100 up to the rounding of
\* double arithmetic: to a double at most 2n doubles away from 100.
C28_WeightsAddUpToRounding ==
    metricsRet.op = "calculatePortfolioMetrics" =>
        LET metrics == metricsRet.value
        IN  /\ SumOfHoldingValues(metrics) = metrics.currentValue
            /\ ~IsZero(metrics.currentValue) =>
                  /\ WeightsAreNumbers(metrics)
                  /\ withinSteps(SumOfWeightsHeld(metrics), doubleOfInt(100),
                                 2 * Len(metrics.holdings))

\* C28: a result with two holdings of value whose weights, as the engine holds
\* them, sum to a double other than 100.
C28_Witness ==
    /\ metricsRet.op = "calculatePortfolioMetrics"
    /\ Len(metricsRet.value.holdings) = 2
    /\ \A i \in 1..2 : ~IsZero(metricsRet.value.holdings[i].currentValue)
    /\ WeightsAreNumbers(metricsRet.value)
    /\ SumOfWeightsHeld(metricsRet.value) # doubleOfInt(100)
    /\ SumOfWeightsHeld(metricsRet.value) = nextDown(doubleOfInt(100))

====
